---- MODULE Spec2Model ----
(***************************************************************************)
(* A model of the behaviour scheduler of the Verona runtime:               *)
(* BehaviourCore::schedule_many, Slot::release and the per-cown read       *)
(* reference count (src/rt/sched/behaviourcore.h, src/rt/sched/cown.h).    *)
(*                                                                         *)
(* Every atomic access to a shared word (cown.last_slot, cown.next_writer, *)
(* cown.read_ref_count, slot.status, behaviour.exec_count_down, the strong *)
(* count) is one step.  Two accesses are folded into one step only where   *)
(* the first is a read of a word no other thread can change before the     *)
(* second (noted at the action).                                           *)
(*                                                                         *)
(* Pointers are integers.  A behaviour b lives at address 32*b, its slot j *)
(* at 32*b + 4*j, so the two low bits of every address are free for the    *)
(* tags the code stores in them.  The model is of a build without          *)
(* assertions (NDEBUG); the variable assert_failed records that a          *)
(* condition the code asserts was false when the code reached it.          *)
(* Unsigned words are represented by the signed residue of their value,    *)
(* which preserves the equality tests the code makes on them.              *)
(***************************************************************************)
EXTENDS Integers, Sequences, FiniteSets, TLC

VARIABLES
  scen,             \* the program being run: bodies, and each thread's calls
  last_slot,        \* Cown::last_slot, per cown
  next_writer,      \* Cown::next_writer, per cown
  read_ref_count,   \* Cown::read_ref_count.count, per cown
  rc,               \* strong reference count of each cown
  slots,            \* Slot fields, per slot address
  exec_count_down,  \* BehaviourCore::exec_count_down, per behaviour
  th,               \* per scheduling thread: position in schedule_many, locals
  be,               \* per behaviour: position in its execution and release
  chain_order,      \* history: bodies in the order they entered each chain
  pushed,           \* history: calls of Scheduler::schedule per behaviour
  assert_failed,    \* history: an assert of the code would have fired
  weak_count,       \* Shared::weak_count, per cown
  deallocs,         \* history: calls of Shared::dealloc, per cown
  collects,         \* history: calls of Shared::collect, per cown
  cl,               \* per client thread of a cown: position, references held
  front,            \* MPMCQ::front, per queue
  back,             \* MPMCQ::back, per queue
  next_in_queue,    \* Work::next_in_queue, per work item
  qc,               \* per client thread of the queues: position, locals
  allocated,        \* history: work items created so far
  content,          \* history: items that entered each queue and not left
  enq_count,        \* history: items that ever entered each queue
  ticket,           \* history: position of an item's last entry in a queue
  by,               \* history: the thread that enqueued an item last
  deq_log,          \* history: the items that left each queue, in order
  returned,         \* history: times an item was returned to a caller
  lifo,             \* history: items of enqueue_front, and those ahead
  steals,           \* history: calls of steal that reached the victim
  spurious,         \* history: a dequeue gave nullptr on a non-empty queue
  wk,               \* per worker: SchedulerThread fields, position, locals
  enqueue_index,    \* WorkStealingQueue::enqueue_index, per core
  dequeue_index,    \* WorkStealingQueue::dequeue_index, per core
  should_steal_for_fairness,  \* Core::should_steal_for_fairness, per core
  sched_log,        \* history: the items each worker scheduled, in order
  run_log,          \* history: the items get_work gave each worker, in order
  pool,             \* ThreadPool: active workers, external event sources
  ext,              \* the thread outside the scheduler: position, locals
  item_body,        \* what the body of a work item does, per work item
  n_status,         \* Notification::status
  n_rc,             \* strong reference count of the notification
  n_chain,          \* the chain of the notification's cown, first runs
  n_call,           \* per caller of notify: position, calls made
  n_run,            \* position of the worker in Notification::invoke
  n_owed,           \* history: notify was called, no body has started since
  n_starts,         \* history: starts of the notification's body
  n_late,           \* history: calls of notify that found the status Running
  n_release,        \* finished runs that have yet to release the notification
  f_q,              \* per core: the work items of Core::q, in order
  f_wk,             \* per worker: position in get_work, locals
  f_waiting         \* where the work item scheduled from outside is

\* The variables of the behaviour scheduler, of the reference counts, and all.
svars == <<scen, last_slot, next_writer, read_ref_count, rc, slots,
           exec_count_down, th, be, chain_order, pushed, assert_failed>>
shvars == <<weak_count, deallocs, collects, cl>>
qvars == <<front, back, next_in_queue, qc, allocated, content, enq_count,
           ticket, by, deq_log, returned, lifo, steals, spurious>>
cvars == <<wk, enqueue_index, dequeue_index, should_steal_for_fairness,
           sched_log, run_log, pool, ext, item_body>>
nvars == <<n_status, n_rc, n_chain, n_call, n_run, n_owed, n_starts, n_late,
           n_release>>
fvars == <<f_q, f_wk, f_waiting>>
vars == <<svars, shvars, qvars, cvars, nvars, fvars>>

-----------------------------------------------------------------------------
(* Bounds of the model. *)

NCowns == 2
MaxPushed == 2
\* The most a body sets the rerun flag.
MaxYields == 2
\* Client threads of a cown, references of a kind one client holds at most,
\* and the cap of the counters of collect and dealloc calls.
NClients == 2
MaxHeld == 2
MaxFreed == 2
\* Work items, calls of steal, and the
\* cap of the counter of returns of one item.
MaxItems == 3
MaxSteals == 1
MaxReturned == 2
\* Cores, each with one worker, and queues of the WorkStealingQueue of a
\* core (core.h:19 has WorkStealingQueue<4>).
NCores == 2
NSub == 1
\* SchedulerThread::BATCH_SIZE (100 in schedulerthread.h:134), scaled down to
\* the number of work items.
BATCH_SIZE == 1

Cowns == 1..NCowns

-----------------------------------------------------------------------------
(* Slot status encoding, behaviourcore.h:81-95. *)

STATUS_WAIT == 0
STATUS_READY == 1
STATUS_READAVAILABLE == 2
STATUS_CHAIN_CLOSED == 3
STATUS_READ_FLAG == 1

Null == 0

BehAddr(b) == 32 * b
SlotAddr(b, j) == 32 * b + 4 * j
AddrBeh(a) == a \div 32

\* status & STATUS_NEXT_SLOT_MASK
NextPtr(st) == st - (st % 4)
\* status & STATUS_READ_FLAG
ReadFlag(st) == st % 2

-----------------------------------------------------------------------------
(* The program.  scen.bodies[b] is the request array of behaviour b: one   *)
(* record [c, ro, mv] per slot (cown, read-only, moved).  scen.prog[t] is  *)
(* the sequence of schedule_many calls thread t makes, each call a         *)
(* sequence of behaviours (the bodies array).  scen.rc0[c] is the number   *)
(* of strong references the callers hold on c before anything is           *)
(* scheduled.                                                              *)

Req(c, ro, mv) == [c |-> c, ro |-> ro, mv |-> mv]
W(c) == Req(c, FALSE, FALSE)
R(c) == Req(c, TRUE, FALSE)
MW(c) == Req(c, FALSE, TRUE)
MR(c) == Req(c, TRUE, TRUE)

Behs == 1..Len(scen.bodies)
Threads == 1..Len(scen.prog)
SlotAddrs == UNION {{SlotAddr(b, j) : j \in 1..Len(scen.bodies[b])} : b \in Behs}

\* Slot::Slot(cown), then set_move / set_read_only as the request says
\* (cpp/behaviour.h:144-148).
NewSlot(r) ==
  [cown |-> r.c, ro |-> r.ro, mv |-> r.mv, beh |-> Null, status |-> STATUS_WAIT]

-----------------------------------------------------------------------------
(* schedule_many, prepare phase: the sorted request map and the chains.    *)

\* cown_to_behaviour_slot_map before sorting: <<body index, slot>> for every
\* slot of every body, in body order (behaviourcore.h:881-892).
RECURSIVE SlotMap(_, _)
SlotMap(bodies, i) ==
  IF i > Len(bodies) THEN <<>>
  ELSE [j \in 1..Len(scen.bodies[bodies[i]]) |-> <<i, SlotAddr(bodies[i], j)>>]
         \o SlotMap(bodies, i + 1)

\* Variant of compare used to test the properties: the cown is ignored.
compare_by_body(sl, i, j) == i[1] < j[1]

\* The compare lambda: by cown, then by body index, writers before readers.
compare(sl, i, j) ==
  IF sl[i[2]].cown = sl[j[2]].cown
  THEN IF i[1] = j[1]
       THEN (~ sl[i[2]].ro) /\ sl[j[2]].ro
       ELSE i[1] < j[1]
  ELSE sl[i[2]].cown < sl[j[2]].cown

\* Variant of SortMap used to test the properties: descending order.
SortMap_descending(sl, map) ==
  LET n == Len(map)
      before(m, k) == compare(sl, map[m], map[k])
                      \/ (~ compare(sl, map[k], map[m]) /\ m < k)
      rank(k) == Cardinality({m \in 1..n : before(m, k)})
  IN [r \in 1..n |-> map[CHOOSE k \in 1..n : rank(k) = n - r]]

\* std::sort of the map by compare; requests compare leaves unordered keep
\* their array order.
SortMap(sl, map) ==
  LET n == Len(map)
      before(m, k) == compare(sl, map[m], map[k])
                      \/ (~ compare(sl, map[k], map[m]) /\ m < k)
      rank(k) == Cardinality({m \in 1..n : before(m, k)})
  IN [r \in 1..n |-> map[CHOOSE k \in 1..n : rank(k) = r - 1]]

\* Slot::take_move: 1 if the slot carries a moved reference.
take_move(sl, s) == IF sl[s].mv THEN 1 ELSE 0
ClearMove(sl, s) == [sl EXCEPT ![s].mv = FALSE]

\* curr_slot->set_behaviour(body) when curr_slot is read only.
SetBehaviourIfRO(sl, s, b) ==
  IF sl[s].ro THEN [sl EXCEPT ![s].beh = BehAddr(b)] ELSE sl

\* ec[body index]++ for a duplicate slot: the behaviour does not wait for
\* the slot that was dropped (behaviourcore.h:1009).
DupCredit(ec, bi) == [ec EXCEPT ![bi] = @ + 1]

\* The inner while loop of the prepare phase (behaviourcore.h:992-1042),
\* from map index st.i on.  st carries the loop's variables.
RECURSIVE PrepareInner(_, _, _)
PrepareInner(bodies, map, st) ==
  IF st.i > Len(map) \/ st.slots[map[st.i][2]].cown # st.cown
  THEN st
  ELSE
    LET bi == map[st.i][1]
        body_next == bodies[bi]
        slot_next == map[st.i][2]
        tc == st.transfer_count + take_move(st.slots, slot_next)
        sl0 == ClearMove(st.slots, slot_next)
    IN IF body_next = st.body
       THEN \* duplicate cown inside one behaviour
            PrepareInner(bodies, map,
              [st EXCEPT !.i = st.i + 1,
                         !.transfer_count = tc,
                         !.ec = DupCredit(st.ec, bi),
                         !.slots = [sl0 EXCEPT ![slot_next] =
                                      [@ EXCEPT !.cown = Null, !.ro = FALSE,
                                                !.mv = FALSE]]])
       ELSE
         LET linked ==
               IF sl0[slot_next].ro
               THEN [sl0 EXCEPT ![st.curr_slot].status =
                                   slot_next + STATUS_READ_FLAG]
               ELSE [sl0 EXCEPT ![st.curr_slot].status = BehAddr(body_next)]
             sl1 == SetBehaviourIfRO(linked, st.curr_slot, st.body)
         IN PrepareInner(bodies, map,
              [st EXCEPT !.i = st.i + 1,
                         !.transfer_count = tc,
                         !.slots = sl1,
                         !.first_writer =
                            IF (~ sl0[slot_next].ro) /\ st.first_writer = Null
                            THEN BehAddr(body_next) ELSE st.first_writer,
                         !.fcr = IF sl0[slot_next].ro /\ st.first_writer = Null
                                 THEN st.fcr + 1 ELSE st.fcr,
                         !.body = body_next,
                         !.curr_slot = slot_next])

\* The outer while loop (behaviourcore.h:966-1064): one ChainInfo per cown.
RECURSIVE PrepareOuter(_, _, _)
PrepareOuter(bodies, map, acc) ==
  IF acc.i > Len(map) THEN acc
  ELSE
    LET first_slot == map[acc.i][2]
        first_body_index == map[acc.i][1]
        body == bodies[first_body_index]
        cown == acc.slots[first_slot].cown
        first_writer == IF acc.slots[first_slot].ro THEN Null ELSE BehAddr(body)
        st == PrepareInner(bodies, map,
                [i |-> acc.i + 1, cown |-> cown, body |-> body,
                 curr_slot |-> first_slot,
                 transfer_count |-> take_move(acc.slots, first_slot),
                 first_writer |-> first_writer,
                 fcr |-> IF first_writer = Null THEN 1 ELSE 0,
                 slots |-> ClearMove(acc.slots, first_slot),
                 ec |-> acc.ec])
        sl1 == SetBehaviourIfRO(st.slots, st.curr_slot, st.body)
        info == [cown |-> cown,
                 first_body_index |-> first_body_index,
                 first_slot |-> first_slot,
                 last_slot |-> st.curr_slot,
                 transfer_count |-> st.transfer_count,
                 had_no_predecessor |-> FALSE,
                 ref_count |-> 0,
                 read_only_can_run |-> FALSE,
                 first_writer |-> st.first_writer,
                 first_consecutive_readers_count |-> st.fcr]
    IN PrepareOuter(bodies, map,
         [i |-> st.i,
          slots |-> [sl1 EXCEPT ![st.curr_slot].status = STATUS_WAIT],
          ec |-> st.ec,
          chain_info |-> Append(acc.chain_info, info)])

\* The whole prepare phase for one call: ec = 1 for every body, the sorted
\* map, then the chains (behaviourcore.h:870-1064).
Prepare(sl, bodies) ==
  PrepareOuter(bodies, SortMap(sl, SlotMap(bodies, 1)),
    [i |-> 1, slots |-> sl, ec |-> [i \in 1..Len(bodies) |-> 1],
     chain_info |-> <<>>])

\* The slot behaviour b holds on cown c (its one slot whose cown is c), or
\* Null.
SlotOn(sl, b, c) ==
  LET js == {j \in 1..Len(scen.bodies[b]) : sl[SlotAddr(b, j)].cown = c}
  IN IF js = {} THEN Null ELSE SlotAddr(b, CHOOSE j \in js : TRUE)

\* The behaviours of a chain segment, read off the links the prepare phase
\* wrote into the slots' status words: from slot s to slot last.
RECURSIVE Segment(_, _, _, _, _)
Segment(sl, s, last, c, fuel) ==
  IF s = last \/ fuel = 0 THEN <<AddrBeh(s)>>
  ELSE LET st == sl[s].status
           nxt == IF st <= STATUS_CHAIN_CLOSED THEN Null
                  ELSE IF ReadFlag(st) = 1 THEN NextPtr(st)
                  ELSE IF AddrBeh(st) \in Behs THEN SlotOn(sl, AddrBeh(st), c)
                  ELSE Null
       IN IF nxt \notin DOMAIN sl THEN <<AddrBeh(s)>>
          ELSE <<AddrBeh(s)>> \o Segment(sl, nxt, last, c, fuel - 1)

-----------------------------------------------------------------------------
(* Shared helpers of the actions.                                          *)

Min(a, b) == IF a < b THEN a ELSE b

\* The sum of f over S.
RECURSIVE Sum(_, _)
Sum(f, S) ==
  IF S = {} THEN 0
  ELSE LET x == CHOOSE y \in S : TRUE IN f[x] + Sum(f, S \ {x})

\* Scheduler::schedule(as_work()): the behaviour's Work is pushed to a core
\* queue; a behaviour that was not queued yet becomes queued.
Schedule(bev, b) ==
  IF bev[b].pc = "new" THEN [bev EXCEPT ![b].pc = "queued"] ELSE bev

CountPush(b) == [pushed EXCEPT ![b] = Min(@ + 1, MaxPushed)]

\* First slot index after j of behaviour b whose cown is not null
\* (release_all skips the slots Slot::release returns from at once), or 0.
NextLive(b, j) ==
  LET live == {k \in (j + 1)..Len(scen.bodies[b]) :
                 slots[SlotAddr(b, k)].cown # Null}
  IN IF live = {} THEN 0 ELSE CHOOSE k \in live : \A m \in live : k <= m

\* Locals of a behaviour's execution: pc, the slot index j being released,
\* fin (the CAS of last_slot to null succeeded), w (behaviour to resolve),
\* cur / cnt / wae (curr_slot, count, writer_at_end of Slot::release),
\* it / nx (the slot whose reader is being resolved, and its next slot),
\* ret (where to continue after a resolve), runs (the number of times the
\* body was started, a history).
BehLocals(pc, j) ==
  [pc |-> pc, j |-> j, fin |-> FALSE, w |-> Null, cur |-> Null, cnt |-> 0,
   wae |-> FALSE, it |-> Null, nx |-> Null, ret |-> "", runs |-> 0]

\* The behaviour record after Slot::release of slot r.j has returned.
AfterSlot(b, r) ==
  LET k == NextLive(b, r.j)
  IN IF k = 0 THEN [BehLocals("done", 0) EXCEPT !.runs = r.runs]
     ELSE [BehLocals("release", k) EXCEPT !.runs = r.runs]

\* Thread record when chain r.i is done in the acquire / release / process
\* loop, and when body r.i is done in the resolve loop.
AfterAcquire(r) ==
  IF r.i < Len(r.chain_info)
  THEN [r EXCEPT !.pc = "acquire", !.i = r.i + 1, !.prev = Null]
  ELSE [r EXCEPT !.pc = "release", !.i = 1, !.prev = Null]

\* AfterRelease that leaves the release phase after its first chain.
AfterRelease_first(r) == [r EXCEPT !.pc = "process", !.i = 1]

AfterRelease(r) ==
  IF r.i < Len(r.chain_info)
  THEN [r EXCEPT !.i = r.i + 1]
  ELSE [r EXCEPT !.pc = "process", !.i = 1]

AfterProcess(r) ==
  IF r.i < Len(r.chain_info)
  THEN [r EXCEPT !.pc = "process", !.i = r.i + 1]
  ELSE [r EXCEPT !.pc = "resolve", !.i = 1]

AfterResolve(t, r) ==
  IF r.i < Len(scen.prog[t][r.g])
  THEN [r EXCEPT !.pc = "resolve", !.i = r.i + 1]
  ELSE [r EXCEPT !.pc = "idle", !.i = 0, !.g = r.g + 1,
                 !.chain_info = <<>>, !.ec = <<>>]

\* for (i < first_consecutive_readers_count) ec[first_body_index + i] += 1
\* (behaviourcore.h:1214-1218)
CreditReaders(ec, ci) ==
  [k \in DOMAIN ec |->
     IF /\ k >= ci.first_body_index
        /\ k < ci.first_body_index + ci.first_consecutive_readers_count
     THEN ec[k] + 1 ELSE ec[k]]

-----------------------------------------------------------------------------
(* BehaviourCore::schedule_many (behaviourcore.h:762-1226), one action per *)
(* shared access, run by thread t for its current call scen.prog[t][g].    *)

Bodies(t) == scen.prog[t][th[t].g]
Chain(t) == th[t].chain_info[th[t].i]

\* Prepare phase.  The slots of the call are not yet reachable from any
\* cown, so the whole phase is one step.
SchedulePrepare(t) ==
  /\ th[t].pc = "idle"
  /\ th[t].g <= Len(scen.prog[t])
  /\ LET p == Prepare(slots, Bodies(t))
     IN /\ slots' = p.slots
        /\ th' = [th EXCEPT ![t] =
                    [@ EXCEPT !.pc = IF p.chain_info = <<>> THEN "resolve"
                                     ELSE "acquire",
                              !.i = 1, !.prev = Null,
                              !.chain_info = p.chain_info, !.ec = p.ec]]
  /\ UNCHANGED <<scen, last_slot, next_writer, read_ref_count, rc,
                 exec_count_down, be, chain_order, pushed, assert_failed>>

\* Acquire phase: prev_slot = cown->last_slot.exchange(chain_last_slot).
Acquire(t) ==
  /\ th[t].pc = "acquire"
  /\ LET ci == Chain(t)
         prev_slot == last_slot[ci.cown]
     IN /\ last_slot' = [last_slot EXCEPT ![ci.cown] = ci.last_slot]
        /\ chain_order' = [chain_order EXCEPT ![ci.cown] =
                             @ \o Segment(slots, ci.first_slot, ci.last_slot,
                                          ci.cown, Len(Bodies(t)))]
        /\ th' = [th EXCEPT ![t] =
             IF prev_slot = Null
             THEN LET r == [@ EXCEPT !.chain_info[@.i].had_no_predecessor = TRUE]
                  IN IF slots[ci.first_slot].ro
                     THEN [r EXCEPT !.pc = "add_read"]
                     ELSE AfterAcquire(r)
             ELSE [@ EXCEPT !.pc = "link", !.prev = prev_slot]]
  /\ UNCHANGED <<scen, next_writer, read_ref_count, rc, slots,
                 exec_count_down, be, pushed, assert_failed>>

\* Variant of is_wait_2pl used to test the properties: no wait for the
\* predecessor's release phase.
is_wait_2pl_never(sl, s) == FALSE

\* Slot::is_wait_2pl: the slot's call has not reached its release phase.
is_wait_2pl(sl, s) == sl[s].status = STATUS_WAIT

\* Link that goes on without writing a response into prev_slot's status.
Link_no_response(t) ==
  /\ th[t].pc = "link"
  /\ ~ is_wait_2pl(slots, th[t].prev)
  /\ th' = [th EXCEPT ![t] = AfterAcquire(@)]
  /\ UNCHANGED <<scen, slots, last_slot, next_writer, read_ref_count, rc,
                 exec_count_down, be, chain_order, pushed, assert_failed>>

\* The wait for prev_slot to leave Wait, then the attempt to link behind it:
\* set_next_slot_reader_contended (via handle_read_only_enqueue) for a chain
\* that starts with a reader, set_next_slot_writer_contended otherwise.  The
\* wait, the CAS and the store of ChainClosed after a failed CAS are one
\* step: once prev_slot has left Wait it is not reset, and a status of
\* ReadAvailable is changed by nobody but this successor.
Link(t) ==
  /\ th[t].pc = "link"
  /\ ~ is_wait_2pl(slots, th[t].prev)
  /\ LET ci == Chain(t)
         prev == th[t].prev
         st == slots[prev].status
         reader == slots[ci.first_slot].ro
         new_status == IF reader THEN ci.first_slot + STATUS_READ_FLAG
                       ELSE BehAddr(Bodies(t)[ci.first_body_index])
         success == IF reader THEN st = STATUS_READY
                    ELSE (~ slots[prev].ro) \/ st = STATUS_READY
     IN /\ slots' = [slots EXCEPT ![prev].status =
                       IF success THEN new_status ELSE STATUS_CHAIN_CLOSED]
        /\ th' = [th EXCEPT ![t] =
             IF reader
             THEN IF success THEN AfterAcquire(@)
                  ELSE [@ EXCEPT !.pc = "add_read"]
             ELSE IF success THEN AfterAcquire(@)
                  ELSE AfterAcquire(
                         [@ EXCEPT !.chain_info[@.i].read_only_can_run = TRUE])]
        /\ assert_failed' = (assert_failed \/ st >= STATUS_CHAIN_CLOSED)
  /\ UNCHANGED <<scen, last_slot, next_writer, read_ref_count, rc,
                 exec_count_down, be, chain_order, pushed>>

\* handle_read_only_enqueue after no link was made:
\* first_reader = read_ref_count.add_read(first_consecutive_readers_count).
AddRead(t) ==
  /\ th[t].pc = "add_read"
  /\ LET ci == Chain(t)
         old == read_ref_count[ci.cown]
     IN /\ read_ref_count' = [read_ref_count EXCEPT ![ci.cown] =
                                old + 2 * ci.first_consecutive_readers_count]
        /\ th' = [th EXCEPT ![t] = AfterAcquire(
                    [@ EXCEPT !.chain_info[@.i].ref_count =
                                 IF old = 0 THEN 1 ELSE 0,
                              !.chain_info[@.i].read_only_can_run = TRUE])]
        /\ assert_failed' = (assert_failed \/ old % 2 # 0)
  /\ UNCHANGED <<scen, last_slot, next_writer, rc, slots, exec_count_down,
                 be, chain_order, pushed>>

\* Release phase that does not look at first_writer: the tail of a chain
\* with a writer is made ReadAvailable as well.
ReleasePhase_any_chain(t) ==
  /\ th[t].pc = "release"
  /\ LET ci == Chain(t)
         avail == ci.had_no_predecessor \/ ci.read_only_can_run
     IN slots' = [slots EXCEPT ![ci.last_slot].status =
                    IF avail THEN STATUS_READAVAILABLE ELSE STATUS_READY]
  /\ th' = [th EXCEPT ![t] = AfterRelease(@)]
  /\ UNCHANGED <<scen, last_slot, next_writer, read_ref_count, rc,
                 exec_count_down, be, chain_order, pushed, assert_failed>>

\* Release phase: the chain's last slot leaves Wait.
ReleasePhase(t) ==
  /\ th[t].pc = "release"
  /\ LET ci == Chain(t)
         avail == /\ ci.had_no_predecessor \/ ci.read_only_can_run
                  /\ ci.first_writer = Null
     IN /\ slots' = [slots EXCEPT ![ci.last_slot].status =
                       IF avail THEN STATUS_READAVAILABLE ELSE STATUS_READY]
        /\ assert_failed' = (assert_failed
                             \/ (avail /\ ~ slots[ci.last_slot].ro)
                             \/ (avail /\ slots[ci.last_slot].status # STATUS_WAIT))
  /\ th' = [th EXCEPT ![t] = AfterRelease(@)]
  /\ UNCHANGED <<scen, last_slot, next_writer, read_ref_count, rc,
                 exec_count_down, be, chain_order, pushed>>

\* acquire_with_transfer(cown, transfer, required): the strong count moves
\* from the references handed over to the references needed.
acquire_with_transfer(count, transfer, required) ==
  count + (required - transfer)

\* Process phase, after the reader credit of a chain is known.
ProcessEnd(r, ci) ==
  AfterProcess([r EXCEPT !.ec = IF ci.read_only_can_run
                                THEN CreditReaders(@, ci) ELSE @])

\* Process phase for chain i: the reference count, then the branch taken.
Process(t) ==
  /\ th[t].pc = "process"
  /\ LET ci == Chain(t)
         ref_count == ci.ref_count + (IF ci.had_no_predecessor THEN 1 ELSE 0)
         head == ci.had_no_predecessor \/ ci.read_only_can_run
     IN /\ rc' = [rc EXCEPT ![ci.cown] =
                    acquire_with_transfer(@, ci.transfer_count, ref_count)]
        /\ th' = [th EXCEPT ![t] =
             IF head /\ (~ slots[ci.first_slot].ro \/ ci.first_writer # Null)
             THEN [@ EXCEPT !.pc = "try_write"]
             ELSE ProcessEnd(@, ci)]
  /\ UNCHANGED <<scen, last_slot, next_writer, read_ref_count, slots,
                 exec_count_down, be, chain_order, pushed, assert_failed>>

\* The thread record once try_write has returned result in the process
\* phase: a writer at the head of the cown's queue is credited, any other
\* outcome goes on to store next_writer.
TryWriteDone(r, ci, result) ==
  IF (~ slots[ci.first_slot].ro) /\ result
  THEN AfterProcess([r EXCEPT !.ec[ci.first_body_index] = @ + 1])
  ELSE [r EXCEPT !.pc = "next_writer"]

\* Variant of TryWrite used to test the properties: the writer does not look
\* at the count of readers.
TryWrite_unchecked(t) ==
  /\ th[t].pc = "try_write"
  /\ th' = [th EXCEPT ![t] = TryWriteDone(@, Chain(t), TRUE)]
  /\ UNCHANGED <<scen, last_slot, next_writer, read_ref_count, rc, slots,
                 exec_count_down, be, chain_order, pushed, assert_failed>>

\* ReadRefCount::try_write, the load: count == 0 returns true.
TryWrite(t) ==
  /\ th[t].pc = "try_write"
  /\ LET ci == Chain(t)
     IN th' = [th EXCEPT ![t] =
                 IF read_ref_count[ci.cown] = 0
                 THEN TryWriteDone(@, ci, TRUE)
                 ELSE [@ EXCEPT !.pc = "try_write_add"]]
  /\ assert_failed' = (assert_failed
                       \/ (slots[Chain(t).first_slot].ro
                           /\ read_ref_count[Chain(t).cown] = 0))
  /\ UNCHANGED <<scen, last_slot, next_writer, read_ref_count, rc, slots,
                 exec_count_down, be, chain_order, pushed>>

\* try_write: count.fetch_add(1) != 0 returns false.
TryWriteAdd(t) ==
  /\ th[t].pc = "try_write_add"
  /\ LET ci == Chain(t)
         old == read_ref_count[ci.cown]
     IN /\ read_ref_count' = [read_ref_count EXCEPT ![ci.cown] = old + 1]
        /\ th' = [th EXCEPT ![t] =
                    IF old # 0 THEN TryWriteDone(@, ci, FALSE)
                    ELSE [@ EXCEPT !.pc = "try_write_clear"]]
  /\ UNCHANGED <<scen, last_slot, next_writer, rc, slots, exec_count_down,
                 be, chain_order, pushed, assert_failed>>

\* try_write: the readers drained in between, count.store(0), return true.
TryWriteClear(t) ==
  /\ th[t].pc = "try_write_clear"
  /\ LET ci == Chain(t)
     IN /\ read_ref_count' = [read_ref_count EXCEPT ![ci.cown] = 0]
        /\ th' = [th EXCEPT ![t] = TryWriteDone(@, ci, TRUE)]
        /\ assert_failed' = (assert_failed \/ slots[ci.first_slot].ro)
  /\ UNCHANGED <<scen, last_slot, next_writer, rc, slots, exec_count_down,
                 be, chain_order, pushed>>

\* cown->next_writer = first_body (writer at the head, behind readers) or
\* first_writer (first writer of a chain that starts with readers).
NextWriter(t) ==
  /\ th[t].pc = "next_writer"
  /\ LET ci == Chain(t)
     IN IF ~ slots[ci.first_slot].ro
        THEN /\ next_writer' = [next_writer EXCEPT ![ci.cown] =
                                  BehAddr(Bodies(t)[ci.first_body_index])]
             /\ th' = [th EXCEPT ![t] = AfterProcess(@)]
        ELSE /\ next_writer' = [next_writer EXCEPT ![ci.cown] = ci.first_writer]
             /\ th' = [th EXCEPT ![t] = ProcessEnd(@, ci)]
  /\ UNCHANGED <<scen, last_slot, read_ref_count, rc, slots, exec_count_down,
                 be, chain_order, pushed, assert_failed>>

\* bodies[i]->resolve(ec[i]), the load: exec_count_down == n schedules the
\* behaviour without the last decrement.
Resolve(t) ==
  /\ th[t].pc = "resolve"
  /\ LET b == Bodies(t)[th[t].i]
         n == th[t].ec[th[t].i]
     IN IF exec_count_down[b] = n
        THEN /\ be' = Schedule(be, b)
             /\ pushed' = CountPush(b)
             /\ th' = [th EXCEPT ![t] = AfterResolve(t, @)]
        ELSE /\ th' = [th EXCEPT ![t].pc = "resolve_sub"]
             /\ UNCHANGED <<be, pushed>>
  /\ UNCHANGED <<scen, last_slot, next_writer, read_ref_count, rc, slots,
                 exec_count_down, chain_order, assert_failed>>

\* resolve: exec_count_down.fetch_sub(n) == n schedules the behaviour.
ResolveSub(t) ==
  /\ th[t].pc = "resolve_sub"
  /\ LET b == Bodies(t)[th[t].i]
         n == th[t].ec[th[t].i]
         old == exec_count_down[b]
     IN /\ exec_count_down' = [exec_count_down EXCEPT ![b] = old - n]
        /\ be' = IF old = n THEN Schedule(be, b) ELSE be
        /\ pushed' = IF old = n THEN CountPush(b) ELSE pushed
        /\ th' = [th EXCEPT ![t] = AfterResolve(t, @)]
  /\ UNCHANGED <<scen, last_slot, next_writer, read_ref_count, rc, slots,
                 chain_order, assert_failed>>

-----------------------------------------------------------------------------
(* Execution of a behaviour: a worker takes its Work from a queue, runs    *)
(* the body, and the body's last act is BehaviourCore::finished, that is   *)
(* release_all (behaviourcore.h:594-605, 658-667).                         *)

RSlot(b) == SlotAddr(b, be[b].j)
RCown(b) == slots[RSlot(b)].cown

\* A worker starts the body (Behaviour::invoke, behaviour.h:58-64).
Run(b) ==
  /\ be[b].pc = "queued"
  /\ be' = [be EXCEPT ![b].pc = "running", ![b].runs = @ + 1]
  /\ UNCHANGED <<scen, last_slot, next_writer, read_ref_count, rc, slots,
                 exec_count_down, th, chain_order, pushed, assert_failed>>

\* The body has set the rerun flag in this run: the program tells how many
\* of its runs do.
behaviour_rerun(b) == be[b].runs <= scen.yields[b]

\* The body returns with the rerun flag set (behaviour.h:65-70): the flag is
\* cleared and the Work is scheduled again; finished is not called.
Rerun(b) ==
  /\ be[b].pc = "running"
  /\ behaviour_rerun(b)
  /\ be' = [be EXCEPT ![b].pc = "queued"]
  /\ UNCHANGED <<scen, last_slot, next_writer, read_ref_count, rc, slots,
                 exec_count_down, th, chain_order, pushed, assert_failed>>

\* The body returns without the flag and invoke calls finished
\* (behaviour.h:71-75): release_all starts at its first slot with a cown.
Finished(b) ==
  /\ be[b].pc = "running"
  /\ ~ behaviour_rerun(b)
  /\ be' = [be EXCEPT ![b] = AfterSlot(b, [@ EXCEPT !.j = 0])]
  /\ UNCHANGED <<scen, last_slot, next_writer, read_ref_count, rc, slots,
                 exec_count_down, th, chain_order, pushed, assert_failed>>

\* Slot::release up to its first branch (behaviourcore.h:1280-1337).  With no
\* successor response the slot tries to CAS last_slot to null; when that
\* fails it spins until the successor has written the status.  The load of
\* the status and the CAS are one step: while last_slot is this slot, no
\* successor exists that could write the status.
Release(b) ==
  /\ be[b].pc = "release"
  /\ LET s == RSlot(b)
         c == RCown(b)
         st == slots[s].status
     IN /\ st >= STATUS_CHAIN_CLOSED \/ last_slot[c] = s
        /\ IF st < STATUS_CHAIN_CLOSED
           THEN /\ last_slot' = [last_slot EXCEPT ![c] = Null]
                /\ be' = [be EXCEPT ![b] =
                            [@ EXCEPT !.fin = TRUE,
                                      !.pc = IF slots[s].ro THEN "drop_read"
                                             ELSE "release_cown"]]
           ELSE /\ UNCHANGED last_slot
                /\ be' = [be EXCEPT ![b] =
                            IF slots[s].ro THEN [@ EXCEPT !.pc = "drop_read"]
                            ELSE IF ReadFlag(st) = 0
                            THEN \* next_behaviour()->resolve()
                                 [@ EXCEPT !.pc = "resolve", !.w = NextPtr(st),
                                           !.ret = "next_slot"]
                            ELSE [@ EXCEPT !.pc = "wake_readers"]]
        /\ assert_failed' = (assert_failed \/ st = STATUS_WAIT)
  /\ UNCHANGED <<scen, next_writer, read_ref_count, rc, slots,
                 exec_count_down, th, chain_order, pushed>>

\* Slot::drop_read: status = read_ref_count.release_read(), the fetch_sub.
DropRead(b) ==
  /\ be[b].pc = "drop_read"
  /\ LET c == RCown(b)
         old == read_ref_count[c]
     IN /\ read_ref_count' = [read_ref_count EXCEPT ![c] = old - 2]
        /\ be' = [be EXCEPT ![b] =
             IF old > 3 \/ old < 0
             THEN \* NOT_LAST
                  IF @.fin THEN [@ EXCEPT !.pc = "release_cown"]
                  ELSE AfterSlot(b, @)
             ELSE IF old = 2
             THEN \* LAST_READER
                  [@ EXCEPT !.pc = "release_read_cown"]
             ELSE [@ EXCEPT !.pc = "clear_pending"]]
        /\ assert_failed' = (assert_failed \/ (old <= 3 /\ old \notin {2, 3}))
  /\ UNCHANGED <<scen, last_slot, next_writer, rc, slots, exec_count_down,
                 th, chain_order, pushed>>

\* release_read, last reader with a writer waiting: count.store(0).
ClearPending(b) ==
  /\ be[b].pc = "clear_pending"
  /\ read_ref_count' = [read_ref_count EXCEPT ![RCown(b)] = 0]
  /\ assert_failed' = (assert_failed \/ read_ref_count[RCown(b)] # 1)
  /\ be' = [be EXCEPT ![b].pc = "wakeup_load"]
  /\ UNCHANGED <<scen, last_slot, next_writer, rc, slots, exec_count_down,
                 th, chain_order, pushed>>

\* Slot::wakeup_next_writer: spin until next_writer is not null, and load it.
WakeupLoad(b) ==
  /\ be[b].pc = "wakeup_load"
  /\ next_writer[RCown(b)] # Null
  /\ be' = [be EXCEPT ![b].pc = "wakeup_clear", ![b].w = next_writer[RCown(b)]]
  /\ UNCHANGED <<scen, last_slot, next_writer, read_ref_count, rc, slots,
                 exec_count_down, th, chain_order, pushed, assert_failed>>

\* wakeup_next_writer: cown()->next_writer = nullptr.
WakeupClear(b) ==
  /\ be[b].pc = "wakeup_clear"
  /\ next_writer' = [next_writer EXCEPT ![RCown(b)] = Null]
  /\ be' = [be EXCEPT ![b].pc = "resolve", ![b].ret = "release_read_cown"]
  /\ UNCHANGED <<scen, last_slot, read_ref_count, rc, slots, exec_count_down,
                 th, chain_order, pushed, assert_failed>>

\* drop_read, last reader: shared::release(cown()), the reference the first
\* reader of the read front took.
ReleaseReadCown(b) ==
  /\ be[b].pc = "release_read_cown"
  /\ rc' = [rc EXCEPT ![RCown(b)] = @ - 1]
  /\ be' = [be EXCEPT ![b] = IF @.fin THEN [@ EXCEPT !.pc = "release_cown"]
                             ELSE AfterSlot(b, @)]
  /\ UNCHANGED <<scen, last_slot, next_writer, read_ref_count, slots,
                 exec_count_down, th, chain_order, pushed, assert_failed>>

\* Variant of ReleaseCown used to test the properties: the reference is kept.
ReleaseCown_keep(b) ==
  /\ be[b].pc = "release_cown"
  /\ be' = [be EXCEPT ![b] = AfterSlot(b, @)]
  /\ UNCHANGED <<scen, last_slot, next_writer, read_ref_count, rc, slots,
                 exec_count_down, th, chain_order, pushed, assert_failed>>

\* Slot::release after the CAS of last_slot to null succeeded:
\* shared::release(cown()), the reference held for the chain.
ReleaseCown(b) ==
  /\ be[b].pc = "release_cown"
  /\ rc' = [rc EXCEPT ![RCown(b)] = @ - 1]
  /\ be' = [be EXCEPT ![b] = AfterSlot(b, @)]
  /\ UNCHANGED <<scen, last_slot, next_writer, read_ref_count, slots,
                 exec_count_down, th, chain_order, pushed, assert_failed>>

\* Slot::release, the last loop: resolve the reader of slot it, having read
\* the slot after it first.  The links read here were written before the walk
\* passed over them and do not change.
ResolveReader(r, it) ==
  IF it \notin SlotAddrs
  THEN [r EXCEPT !.pc = "crashed"]
  ELSE [r EXCEPT !.pc = "resolve", !.ret = "resolve_readers", !.it = it,
                 !.w = slots[it].beh,
                 !.nx = IF it = r.cur THEN Null ELSE NextPtr(slots[it].status)]

\* Where release continues after a resolve it made has returned.
Return(b, r) ==
  IF r.ret = "next_slot" THEN AfterSlot(b, r)
  ELSE IF r.ret = "resolve_readers"
  THEN IF r.it = r.cur THEN AfterSlot(b, r) ELSE ResolveReader(r, r.nx)
  ELSE [r EXCEPT !.pc = r.ret, !.ret = ""]

\* w->resolve() made by a releasing behaviour, the load of exec_count_down.
\* A resolve through a null pointer ends the thread.
BehResolve(b) ==
  /\ be[b].pc = "resolve"
  /\ LET w == AddrBeh(be[b].w)
     IN IF w \notin Behs
        THEN /\ be' = [be EXCEPT ![b].pc = "crashed"]
             /\ assert_failed' = TRUE
             /\ UNCHANGED pushed
        ELSE /\ IF exec_count_down[w] = 1
                THEN /\ be' = Schedule([be EXCEPT ![b] = Return(b, @)], w)
                     /\ pushed' = CountPush(w)
                ELSE /\ be' = [be EXCEPT ![b].pc = "resolve_sub"]
                     /\ UNCHANGED pushed
             /\ UNCHANGED assert_failed
  /\ UNCHANGED <<scen, last_slot, next_writer, read_ref_count, rc, slots,
                 exec_count_down, th, chain_order>>

\* resolve: exec_count_down.fetch_sub(1) == 1 schedules the behaviour.
BehResolveSub(b) ==
  /\ be[b].pc = "resolve_sub"
  /\ LET w == AddrBeh(be[b].w)
         old == exec_count_down[w]
     IN /\ exec_count_down' = [exec_count_down EXCEPT ![w] = old - 1]
        /\ be' = IF old = 1
                 THEN Schedule([be EXCEPT ![b] = Return(b, @)], w)
                 ELSE [be EXCEPT ![b] = Return(b, @)]
        /\ pushed' = IF old = 1 THEN CountPush(w) ELSE pushed
  /\ UNCHANGED <<scen, last_slot, next_writer, read_ref_count, rc, slots,
                 th, chain_order, assert_failed>>

-----------------------------------------------------------------------------
(* Slot::release, final case: a writer wakes the readers behind it         *)
(* (behaviourcore.h:1339-1407).                                            *)

\* first_reader = cown()->read_ref_count.add_read().
WakeReaders(b) ==
  /\ be[b].pc = "wake_readers"
  /\ read_ref_count' = [read_ref_count EXCEPT ![RCown(b)] = @ + 2]
  /\ assert_failed' = (assert_failed \/ read_ref_count[RCown(b)] # 0)
  /\ be' = [be EXCEPT ![b].pc = "acquire_cown"]
  /\ UNCHANGED <<scen, last_slot, next_writer, rc, slots, exec_count_down,
                 th, chain_order, pushed>>

\* Cown::acquire(cown()), the reference of the read front; then
\* curr_slot = next_slot(), count = 0.
AcquireCown(b) ==
  /\ be[b].pc = "acquire_cown"
  /\ rc' = [rc EXCEPT ![RCown(b)] = @ + 1]
  /\ be' = [be EXCEPT ![b].pc = "read_available",
                      ![b].cur = NextPtr(slots[RSlot(b)].status),
                      ![b].cnt = 0]
  /\ UNCHANGED <<scen, last_slot, next_writer, read_ref_count, slots,
                 exec_count_down, th, chain_order, pushed, assert_failed>>

\* set_read_available_contended as a plain store of ReadAvailable, whatever
\* the status was.
ReadAvailable_store(b) ==
  /\ be[b].pc = "read_available"
  /\ be[b].cur \in SlotAddrs
  /\ slots' = [slots EXCEPT ![be[b].cur].status = STATUS_READAVAILABLE]
  /\ be' = [be EXCEPT ![b].pc = "add_count"]
  /\ UNCHANGED <<scen, last_slot, next_writer, read_ref_count, rc,
                 exec_count_down, th, chain_order, pushed, assert_failed>>

\* curr_slot->set_read_available_contended(): CAS Ready -> ReadAvailable.
ReadAvailable(b) ==
  /\ be[b].pc = "read_available"
  /\ LET cur == be[b].cur
     IN IF cur \notin SlotAddrs
        THEN /\ be' = [be EXCEPT ![b].pc = "crashed"]
             /\ assert_failed' = TRUE
             /\ UNCHANGED slots
        ELSE /\ IF slots[cur].status = STATUS_READY
                THEN /\ slots' = [slots EXCEPT ![cur].status = STATUS_READAVAILABLE]
                     /\ be' = [be EXCEPT ![b].pc = "add_count"]
                ELSE /\ be' = [be EXCEPT ![b].pc = "check_next"]
                     /\ UNCHANGED slots
             /\ assert_failed' = (assert_failed
                                  \/ ~ slots[cur].ro
                                  \/ slots[cur].status = STATUS_WAIT
                                  \/ slots[cur].status = STATUS_READAVAILABLE)
  /\ UNCHANGED <<scen, last_slot, next_writer, read_ref_count, rc,
                 exec_count_down, th, chain_order, pushed>>

\* !curr_slot->is_next_slot_read_only() ends the walk with writer_at_end;
\* otherwise curr_slot = curr_slot->next_slot(), count++.
CheckNext(b) ==
  /\ be[b].pc = "check_next"
  /\ LET st == slots[be[b].cur].status
     IN /\ be' = [be EXCEPT ![b] =
                    IF ReadFlag(st) = 0
                    THEN [@ EXCEPT !.pc = "add_count", !.wae = TRUE]
                    ELSE [@ EXCEPT !.pc = "read_available",
                                   !.cur = NextPtr(st), !.cnt = @ + 1]]
        /\ assert_failed' = (assert_failed \/ st <= STATUS_CHAIN_CLOSED)
  /\ UNCHANGED <<scen, last_slot, next_writer, read_ref_count, rc, slots,
                 exec_count_down, th, chain_order, pushed>>

\* cown()->read_ref_count.add_read(count), the readers after the first.
AddCount(b) ==
  /\ be[b].pc = "add_count"
  /\ read_ref_count' = [read_ref_count EXCEPT ![RCown(b)] = @ + 2 * be[b].cnt]
  /\ assert_failed' = (assert_failed \/ read_ref_count[RCown(b)] % 2 # 0)
  /\ be' = [be EXCEPT ![b] =
              IF @.wae THEN [@ EXCEPT !.pc = "w_try_write"]
              ELSE ResolveReader(@, NextPtr(slots[RSlot(b)].status))]
  /\ UNCHANGED <<scen, last_slot, next_writer, rc, slots, exec_count_down,
                 th, chain_order, pushed>>

\* writer_at_end: try_write(), the load (a result of true is asserted not to
\* happen and is ignored).
WTryWrite(b) ==
  /\ be[b].pc = "w_try_write"
  /\ be' = [be EXCEPT ![b].pc = IF read_ref_count[RCown(b)] = 0
                                THEN "w_next_writer" ELSE "w_try_write_add"]
  /\ assert_failed' = (assert_failed \/ read_ref_count[RCown(b)] = 0)
  /\ UNCHANGED <<scen, last_slot, next_writer, read_ref_count, rc, slots,
                 exec_count_down, th, chain_order, pushed>>

\* try_write: count.fetch_add(1).  The readers this release has just counted
\* cannot be resolved before it goes on, so the count is not 0 here unless
\* the count is already corrupt; the store of 0 that follows a fetch_add
\* returning 0 is then part of this step.
WTryWriteAdd(b) ==
  /\ be[b].pc = "w_try_write_add"
  /\ LET old == read_ref_count[RCown(b)]
     IN /\ read_ref_count' = [read_ref_count EXCEPT ![RCown(b)] =
                                IF old # 0 THEN old + 1 ELSE 0]
        /\ assert_failed' = (assert_failed \/ old = 0)
  /\ be' = [be EXCEPT ![b].pc = "w_next_writer"]
  /\ UNCHANGED <<scen, last_slot, next_writer, rc, slots, exec_count_down,
                 th, chain_order, pushed>>

\* cown()->next_writer = curr_slot->next_behaviour(); then the readers from
\* next_slot() to curr_slot are resolved.
WNextWriter(b) ==
  /\ be[b].pc = "w_next_writer"
  /\ next_writer' = [next_writer EXCEPT ![RCown(b)] =
                       NextPtr(slots[be[b].cur].status)]
  /\ be' = [be EXCEPT ![b] =
              ResolveReader(@, NextPtr(slots[RSlot(b)].status))]
  /\ UNCHANGED <<scen, last_slot, read_ref_count, rc, slots, exec_count_down,
                 th, chain_order, pushed, assert_failed>>

-----------------------------------------------------------------------------
(* Shared: the strong and the weak reference count of a cown               *)
(* (src/rt/sched/shared.h).  Client threads hold strong and weak           *)
(* references to the cown TheCown and call acquire, release, weak_acquire, *)
(* weak_release and acquire_strong_from_weak on it.  A client only calls   *)
(* an operation that the references it holds allow.  Every access to a     *)
(* count is one step.                                                      *)
(*                                                                         *)
(* The count operations of Object (incref, decref_shared,                  *)
(* acquire_strong_from_weak) are not part of the sources at hand; they     *)
(* follow the description of the strong count: a decrement that reports    *)
(* the last reference, and a promotion that is a compare-and-swap loop     *)
(* which does not move the count away from zero.                           *)

TheCown == 1
Clients == 1..NClients

\* Locals of a client: pc, the references it holds, the value of the strong
\* count its promotion loaded, the result of decref_shared, where
\* weak_release returns to, and the result of its last promotion.
ClientLocals(s, w) ==
  [pc |-> "idle", strong |-> s, weak |-> w, seen |-> 0, last |-> FALSE,
   ret |-> "idle", res |-> "none", tries |-> 0]

\* Object::incref.
incref(n) == n + 1

\* Object::decref_shared(release_weak): the count after the decrement,
\* whether this was the last strong reference, and release_weak.
decref_shared(n) ==
  [rc |-> n - 1, last |-> (n = 1), release_weak |-> FALSE]

\* Object::acquire_strong_from_weak(reacquire_weak), one round of its loop
\* with `seen` the value loaded and n the value of the count now: done (the
\* loop has ended), the result, the count after it, and reacquire_weak.
strong_from_weak(seen, n) ==
  IF seen = 0
  THEN [done |-> TRUE, result |-> FALSE, rc |-> n, reacquire_weak |-> FALSE]
  ELSE IF n = seen
  THEN [done |-> TRUE, result |-> TRUE, rc |-> n + 1, reacquire_weak |-> FALSE]
  ELSE [done |-> FALSE, result |-> FALSE, rc |-> n, reacquire_weak |-> FALSE]

\* Shared::acquire: o->incref().
ShAcquire(t) ==
  /\ cl[t].pc = "idle"
  /\ cl[t].strong > 0
  /\ cl[t].strong < MaxHeld
  /\ rc' = [rc EXCEPT ![TheCown] = incref(@)]
  /\ cl' = [cl EXCEPT ![t].strong = @ + 1]
  /\ UNCHANGED <<weak_count, deallocs, collects, assert_failed>>

\* Shared::release up to the first yield: decref_shared.
ShRelease(t) ==
  /\ cl[t].pc = "idle"
  /\ cl[t].strong > 0
  /\ LET d == decref_shared(rc[TheCown])
     IN /\ rc' = [rc EXCEPT ![TheCown] = d.rc]
        /\ cl' = [cl EXCEPT ![t] =
                    [@ EXCEPT !.strong = @ - 1, !.last = d.last,
                              !.pc = IF d.release_weak THEN "weak_release"
                                     ELSE IF d.last THEN "collect"
                                     ELSE "idle",
                              !.ret = IF d.last THEN "collect" ELSE "idle"]]
  /\ UNCHANGED <<weak_count, deallocs, collects, assert_failed>>

\* Shared::queue_collect with no collection in progress on this thread:
\* collect runs the finaliser and the destructor of the cown's body.
ShCollect(t) ==
  /\ cl[t].pc = "collect"
  /\ collects' = [collects EXCEPT ![TheCown] = Min(@ + 1, MaxFreed)]
  /\ cl' = [cl EXCEPT ![t].pc = "weak_release", ![t].ret = "idle"]
  /\ UNCHANGED <<rc, weak_count, deallocs, assert_failed>>

\* A client gives up a weak reference: it calls weak_release.
ShDropWeak(t) ==
  /\ cl[t].pc = "idle"
  /\ cl[t].weak > 0
  /\ cl' = [cl EXCEPT ![t].weak = @ - 1, ![t].pc = "weak_release",
                      ![t].ret = "idle"]
  /\ UNCHANGED <<rc, weak_count, deallocs, collects, assert_failed>>

\* Variant of ShWeakRelease used to test the properties: the allocation is
\* freed whatever the count was.
ShWeakRelease_any(t) ==
  /\ cl[t].pc = "weak_release"
  /\ weak_count' = [weak_count EXCEPT ![TheCown] = @ - 1]
  /\ cl' = [cl EXCEPT ![t].pc = "dealloc"]
  /\ UNCHANGED <<rc, deallocs, collects, assert_failed>>

\* Shared::weak_release: weak_count.fetch_sub(1) == 1.
ShWeakRelease(t) ==
  /\ cl[t].pc = "weak_release"
  /\ weak_count' = [weak_count EXCEPT ![TheCown] = @ - 1]
  /\ cl' = [cl EXCEPT ![t].pc = IF weak_count[TheCown] = 1 THEN "dealloc"
                                ELSE cl[t].ret]
  /\ UNCHANGED <<rc, deallocs, collects, assert_failed>>

\* Shared::dealloc: the allocation is freed.
ShDealloc(t) ==
  /\ cl[t].pc = "dealloc"
  /\ deallocs' = [deallocs EXCEPT ![TheCown] = Min(@ + 1, MaxFreed)]
  /\ cl' = [cl EXCEPT ![t].pc = cl[t].ret]
  /\ UNCHANGED <<rc, weak_count, collects, assert_failed>>

\* Shared::weak_acquire: assert(weak_count > 0); weak_count++.
ShWeakAcquire(t) ==
  /\ cl[t].pc = "idle"
  /\ cl[t].strong > 0 \/ cl[t].weak > 0
  /\ cl[t].weak < MaxHeld
  /\ weak_count' = [weak_count EXCEPT ![TheCown] = @ + 1]
  /\ cl' = [cl EXCEPT ![t].weak = @ + 1]
  /\ assert_failed' = (assert_failed \/ weak_count[TheCown] <= 0)
  /\ UNCHANGED <<rc, deallocs, collects>>

\* acquire_strong_from_weak, the load of the strong count.
ShPromoteLoad(t) ==
  /\ cl[t].pc = "idle"
  /\ cl[t].weak > 0
  /\ cl[t].strong < MaxHeld
  /\ cl' = [cl EXCEPT ![t].pc = "promote", ![t].seen = rc[TheCown],
                      ![t].res = "none", ![t].tries = 0]
  /\ UNCHANGED <<rc, weak_count, deallocs, collects, assert_failed>>

\* Variant of ShPromote used to test the properties: the count is raised as
\* acquire raises it.
ShPromote_incref(t) ==
  /\ cl[t].pc = "promote"
  /\ rc' = [rc EXCEPT ![TheCown] = incref(@)]
  /\ cl' = [cl EXCEPT ![t].pc = "idle", ![t].res = "true",
                      ![t].strong = @ + 1]
  /\ UNCHANGED <<weak_count, deallocs, collects, assert_failed>>

\* Shared::acquire_strong_from_weak: a round of Object's loop, then
\* weak_acquire if reacquire_weak was set.  A failed compare-and-swap has
\* loaded the value it found.
ShPromote(t) ==
  /\ cl[t].pc = "promote"
  /\ LET p == strong_from_weak(cl[t].seen, rc[TheCown])
     IN /\ rc' = [rc EXCEPT ![TheCown] = p.rc]
        /\ cl' = [cl EXCEPT ![t] =
                    IF ~ p.done
                    THEN [@ EXCEPT !.seen = rc[TheCown],
                                   !.tries = Min(@ + 1, MaxHeld)]
                    ELSE [@ EXCEPT !.pc = "idle",
                                   !.res = IF p.result THEN "true" ELSE "false",
                                   !.strong = IF p.result THEN @ + 1 ELSE @]]
        /\ weak_count' = IF p.done /\ p.reacquire_weak
                         THEN [weak_count EXCEPT ![TheCown] = @ + 1]
                         ELSE weak_count
  /\ UNCHANGED <<deallocs, collects, assert_failed>>

-----------------------------------------------------------------------------
(* MPMCQ: the multi-producer multi-consumer queue of Work items            *)
(* (src/rt/sched/mpmcq.h), as the array "queues" of a WorkStealingQueue    *)
(* of every core holds it (workstealingqueue.h:16, core.h:19).  Threads call *)
(* enqueue, enqueue_front, dequeue and, through WorkStealingQueue::steal,  *)
(* dequeue_all, take_one and enqueue_segment.  Every access to front, back *)
(* or a next_in_queue field that another thread can reach is one step; a   *)
(* store to the next_in_queue field of a node the caller alone holds is    *)
(* folded into the step that follows it.                                   *)
(*                                                                         *)
(* A NextPtr* is an integer: 0 is nullptr, n > 0 is &n->next_in_queue for  *)
(* the work item n, and -q is &front of queue q.                           *)

Items == 1..MaxItems
Cores == 1..NCores

\* The queue queues[i] of core c, i \in 0..NSub-1, and the queues of a core.
QId(c, i) == (c - 1) * NSub + i + 1
Queues == 1..(NCores * NSub)
CoreQueues(c) == {QId(c, i) : i \in 0..(NSub - 1)}

\* The threads: one worker for every core, worker c on core c, and a thread
\* outside the scheduler.  In the specification of the queues alone the
\* worker of core Owner enqueues on its queues (schedulerthread.h:123-132),
\* the thread outside does so with enqueue_front (101-115), the worker of
\* core Thief steals from the owner's queues onto its own, and every worker
\* may dequeue from every queue.
Workers == Cores
External == NCores + 1
QThreads == 1..External
Owner == 1
Thief == 2

FrontAddr(q) == 0 - q

Deref(p) == IF p < 0 THEN front[0 - p] ELSE next_in_queue[p]

SeqSet(s) == {s[i] : i \in DOMAIN s}

Without(s, n) == SelectSeq(s, LAMBDA x : x # n)

QLocals ==
  [pc |-> "idle", op |-> "none", q |-> 0, victim |-> 0, ls_start |-> 0,
   ls_end |-> 0, b |-> 0, old_front |-> 0, new_front |-> 0, seg_start |-> 0,
   seg_end |-> 0, r |-> 0, held |-> <<>>, caller |-> "client", res |-> 0]

\* The locals of a thread after its call returned n (0 for nullptr): a client
\* is idle again, a worker or the external thread goes on with the result.
QRet(l, n) ==
  IF l.caller = "client" THEN QLocals
  ELSE [QLocals EXCEPT !.pc = "ret", !.caller = l.caller, !.res = n]

\* History: the call of thread t returns the work item n, taken from queue q.
QReturn(t, q, n) ==
  /\ returned' = [returned EXCEPT ![n] = Min(@ + 1, MaxReturned)]
  /\ content' = [content EXCEPT ![q] = Without(@, n)]
  /\ deq_log' = [deq_log EXCEPT
                   ![q] = Append(@, [item |-> n, by |-> by[n],
                                     ticket |-> ticket[n]])]

\* enqueue(node), mpmcq.h:122-125 with the first store of enqueue_segment
\* (107): the node is a new work item, which only the caller holds.
QEnqueue(t) ==
  /\ t = Owner
  /\ qc[t].pc = "idle"
  /\ allocated < MaxItems
  /\ \E q \in CoreQueues(Owner) :
       qc' = [qc EXCEPT ![t] = [QLocals EXCEPT
                !.pc = "enq_xchg", !.op = "enqueue", !.q = q,
                !.ls_start = allocated + 1, !.ls_end = allocated + 1]]
  /\ allocated' = allocated + 1
  /\ next_in_queue' = [next_in_queue EXCEPT ![allocated + 1] = 0]
  /\ UNCHANGED <<front, back, content, enq_count, ticket, by, deq_log,
                 returned, lifo, steals, spurious, assert_failed>>

\* enqueue_front(node), mpmcq.h:127-131 with the first store of
\* enqueue_segment (107).
QEnqueueFront(t) ==
  /\ t = External
  /\ qc[t].pc = "idle"
  /\ allocated < MaxItems
  /\ \E q \in CoreQueues(Owner) :
       qc' = [qc EXCEPT ![t] = [QLocals EXCEPT
                !.pc = "enq_xchg", !.op = "enqueue_front", !.q = q,
                !.ls_start = allocated + 1, !.ls_end = allocated + 1]]
  /\ allocated' = allocated + 1
  /\ next_in_queue' = [next_in_queue EXCEPT ![allocated + 1] = 0]
  /\ UNCHANGED <<front, back, content, enq_count, ticket, by, deq_log,
                 returned, lifo, steals, spurious, assert_failed>>

\* The items of the segment thread t is enqueueing, first to last: the one
\* node of enqueue(node), or what is left of a stolen segment.
EnqueuedItems(t) ==
  IF qc[t].op = "spread_last" THEN qc[t].held ELSE <<qc[t].ls_start>>

\* enqueue_segment, mpmcq.h:111: b = back.exchange(ls.end).  History: the
\* items of the segment enter the queue in this order, enqueued by t.
EnqueueExchange(t) ==
  LET l == qc[t]
      its == EnqueuedItems(t)
  IN /\ l.pc = "enq_xchg"
     /\ back' = [back EXCEPT ![l.q] = l.ls_end]
     /\ qc' = [qc EXCEPT ![t].pc = "enq_link", ![t].b = back[l.q]]
     /\ content' = [content EXCEPT ![l.q] = @ \o its]
     /\ enq_count' = [enq_count EXCEPT ![l.q] = @ + Len(its)]
     /\ ticket' = [n \in Items |->
                     IF \E i \in DOMAIN its : its[i] = n
                     THEN enq_count[l.q] +
                          (CHOOSE i \in DOMAIN its : its[i] = n)
                     ELSE ticket[n]]
     /\ by' = [n \in Items |-> IF n \in SeqSet(its) THEN t ELSE by[n]]
     /\ UNCHANGED <<front, next_in_queue, allocated, deq_log, returned, lifo,
                    steals, spurious, assert_failed>>

\* What the caller of enqueue_segment does when it returns: enqueue and
\* enqueue_front return to the client; enqueue_spread takes the next item
\* (workstealingqueue.h:29-35), or, after its last enqueue (36), steal
\* returns r (113).
AfterEnqueue(t) ==
  LET l == qc[t]
  IN CASE l.op = "spread" ->
            /\ qc' = [qc EXCEPT ![t].pc = "spread", ![t].b = 0,
                                ![t].ls_start = 0, ![t].ls_end = 0]
            /\ UNCHANGED <<returned, content, deq_log>>
       [] l.op = "spread_last" /\ l.r # 0 ->
            /\ qc' = [qc EXCEPT ![t] = QRet(l, l.r)]
            /\ returned' = [returned EXCEPT
                              ![l.r] = Min(@ + 1, MaxReturned)]
            /\ UNCHANGED <<content, deq_log>>
       [] OTHER ->
            /\ qc' = [qc EXCEPT ![t] = QRet(l, 0)]
            /\ UNCHANGED <<returned, content, deq_log>>

\* enqueue_segment, mpmcq.h:118-119: assert(b->load() == nullptr);
\* b->store(ls.start).  History: the items the queue holds besides w when
\* enqueue_front(w) returns.
EnqueueLink(t) ==
  LET l == qc[t]
  IN /\ l.pc = "enq_link"
     /\ assert_failed' = (assert_failed \/ Deref(l.b) # 0)
     /\ IF l.b < 0
        THEN /\ front' = [front EXCEPT ![0 - l.b] = l.ls_start]
             /\ UNCHANGED next_in_queue
        ELSE /\ next_in_queue' = [next_in_queue EXCEPT ![l.b] = l.ls_start]
             /\ UNCHANGED front
     /\ AfterEnqueue(t)
     /\ lifo' = IF l.op = "enqueue_front"
                THEN [lifo EXCEPT ![l.ls_start] =
                        [q |-> l.q,
                         ahead |-> SeqSet(content[l.q]) \ {l.ls_start}]]
                ELSE lifo
     /\ UNCHANGED <<back, allocated, enq_count, ticket, by, steals,
                    spurious>>

\* dequeue(), mpmcq.h:137-139 with the load of acquire_front (48): a call on
\* a queue whose front is null returns nullptr and changes nothing.
QDequeue(t) ==
  /\ t \in Workers
  /\ qc[t].pc = "idle"
  /\ \E q \in Queues :
       /\ front[q] # 0
       /\ qc' = [qc EXCEPT ![t] = [QLocals EXCEPT
                   !.pc = "acq_xchg", !.op = "dequeue", !.q = q]]
  /\ UNCHANGED <<front, back, next_in_queue, allocated, content, enq_count,
                 ticket, by, deq_log, returned, lifo, steals, spurious,
                 assert_failed>>

\* WorkStealingQueue::steal, workstealingqueue.h:89: dequeue_all on a queue
\* of the victim, with the load of acquire_front (mpmcq.h:48).
QSteal(t) ==
  /\ t = Thief
  /\ qc[t].pc = "idle"
  /\ steals < MaxSteals
  /\ \E q \in CoreQueues(Owner) :
       /\ front[q] # 0
       /\ qc' = [qc EXCEPT ![t] = [QLocals EXCEPT
                   !.pc = "acq_xchg", !.op = "steal", !.q = q,
                   !.victim = q]]
  /\ steals' = steals + 1
  /\ UNCHANGED <<front, back, next_in_queue, allocated, content, enq_count,
                 ticket, by, deq_log, returned, lifo, spurious,
                 assert_failed>>

\* acquire_front, mpmcq.h:48-51: the load of front, in a call of dequeue
\* that a worker makes through WorkStealingQueue::dequeue.
AcquireLoad(t) ==
  LET l == qc[t]
  IN /\ l.pc = "acq_load"
     /\ qc' = [qc EXCEPT ![t] = IF front[l.q] = 0 THEN QRet(l, 0)
                                ELSE [l EXCEPT !.pc = "acq_xchg"]]
     /\ UNCHANGED <<front, back, next_in_queue, allocated, content, enq_count,
                    ticket, by, deq_log, returned, lifo, steals, spurious,
                    assert_failed>>

\* acquire_front, mpmcq.h:57: front.exchange(nullptr).  A null result ends
\* dequeue (144-147) and dequeue_all (187-190, then steal returns nullptr,
\* workstealingqueue.h:99-103).
AcquireFront(t) ==
  LET l == qc[t]
  IN /\ l.pc = "acq_xchg"
     /\ front' = [front EXCEPT ![l.q] = 0]
     /\ qc' = [qc EXCEPT ![t] =
                 IF front[l.q] = 0 THEN QRet(l, 0)
                 ELSE [l EXCEPT !.old_front = front[l.q],
                                !.pc = IF l.op = "dequeue" THEN "deq_next"
                                       ELSE "dqa_back"]]
     /\ UNCHANGED <<back, next_in_queue, allocated, content, enq_count,
                    ticket, by, deq_log, returned, lifo, steals, spurious,
                    assert_failed>>

\* dequeue, mpmcq.h:149: new_front = old_front->next_in_queue.load().
DequeueNext(t) ==
  LET l == qc[t]
  IN /\ l.pc = "deq_next"
     /\ qc' = [qc EXCEPT ![t].new_front = next_in_queue[l.old_front],
                         ![t].pc = IF next_in_queue[l.old_front] # 0
                                   THEN "deq_store" ELSE "deq_cas"]
     /\ UNCHANGED <<front, back, next_in_queue, allocated, content,
                    enq_count, ticket, by, deq_log, returned, lifo, steals,
                    spurious, assert_failed>>

\* A variant of DequeueStore that puts the removed element back at the front.
DequeueStore_keep(t) ==
  LET l == qc[t]
  IN /\ l.pc = "deq_store"
     /\ front' = [front EXCEPT ![l.q] = l.old_front]
     /\ QReturn(t, l.q, l.old_front)
     /\ qc' = [qc EXCEPT ![t] = QRet(l, l.old_front)]
     /\ UNCHANGED <<back, next_in_queue, allocated, enq_count, ticket, by,
                    lifo, steals, spurious, assert_failed>>

\* dequeue, mpmcq.h:153-158: front.store(new_front); return old_front.
DequeueStore(t) ==
  LET l == qc[t]
  IN /\ l.pc = "deq_store"
     /\ front' = [front EXCEPT ![l.q] = l.new_front]
     /\ QReturn(t, l.q, l.old_front)
     /\ qc' = [qc EXCEPT ![t] = QRet(l, l.old_front)]
     /\ UNCHANGED <<back, next_in_queue, allocated, enq_count, ticket, by,
                    lifo, steals, spurious, assert_failed>>

\* dequeue, mpmcq.h:163-169: the queue holds a single element; close it with
\* back.compare_exchange_strong(&old_front->next_in_queue, &front).
DequeueClose(t) ==
  LET l == qc[t]
  IN /\ l.pc = "deq_cas"
     /\ IF back[l.q] = l.old_front
        THEN /\ back' = [back EXCEPT ![l.q] = FrontAddr(l.q)]
             /\ QReturn(t, l.q, l.old_front)
             /\ qc' = [qc EXCEPT ![t] = QRet(l, l.old_front)]
        ELSE /\ qc' = [qc EXCEPT ![t].pc = "deq_restore"]
             /\ UNCHANGED <<back, returned, content, deq_log>>
     /\ UNCHANGED <<front, next_in_queue, allocated, enq_count, ticket, by,
                    lifo, steals, spurious, assert_failed>>

\* dequeue, mpmcq.h:173-175: something is being added; front.store(old_front)
\* and return nullptr.
DequeueRestore(t) ==
  LET l == qc[t]
  IN /\ l.pc = "deq_restore"
     /\ front' = [front EXCEPT ![l.q] = l.old_front]
     /\ qc' = [qc EXCEPT ![t] = QRet(l, 0)]
     /\ spurious' = TRUE
     /\ UNCHANGED <<back, next_in_queue, allocated, content, enq_count,
                    ticket, by, deq_log, returned, lifo, steals,
                    assert_failed>>

\* dequeue_all, mpmcq.h:194-198: old_back = back.exchange(&front); the
\* segment {old_front, old_back} goes to steal.  History: all the items of
\* the queue leave it, in their order.
DequeueAllBack(t) ==
  LET l == qc[t]
  IN /\ l.pc = "dqa_back"
     /\ back' = [back EXCEPT ![l.q] = FrontAddr(l.q)]
     /\ qc' = [qc EXCEPT ![t].pc = "steal_take",
                         ![t].seg_start = l.old_front,
                         ![t].seg_end = back[l.q],
                         ![t].old_front = 0,
                         ![t].held = content[l.q]]
     /\ content' = [content EXCEPT ![l.q] = <<>>]
     /\ deq_log' = [deq_log EXCEPT ![l.q] = @ \o
                      [i \in DOMAIN content[l.q] |->
                         [item |-> content[l.q][i],
                          by |-> by[content[l.q][i]],
                          ticket |-> ticket[content[l.q][i]]]]]
     /\ UNCHANGED <<front, next_in_queue, allocated, enq_count, ticket, by,
                    returned, lifo, steals, spurious, assert_failed>>

\* Variant of StealTake used to test the properties: when take_one gives
\* nullptr and the segment is not a single element, steal returns nullptr
\* without enqueue_spread.
StealTake_drop(t) ==
  LET l == qc[t]
      n == l.seg_start
      next == next_in_queue[n]
  IN /\ l.pc = "steal_take"
     /\ IF next # 0
        THEN /\ qc' = [qc EXCEPT ![t].pc = "spread", ![t].r = n,
                                 ![t].seg_start = next,
                                 ![t].held = Without(@, n)]
             /\ UNCHANGED returned
        ELSE IF l.seg_end = n
        THEN /\ qc' = [qc EXCEPT ![t] = QRet(l, n)]
             /\ returned' = [returned EXCEPT ![n] = Min(@ + 1, MaxReturned)]
        ELSE /\ qc' = [qc EXCEPT ![t] = QRet(l, 0)]
             /\ UNCHANGED returned
     /\ UNCHANGED <<front, back, next_in_queue, allocated, content,
                    enq_count, ticket, by, deq_log, lifo, steals, spurious,
                    assert_failed>>

\* steal, workstealingqueue.h:91-113: r = ls.take_one() (mpmcq.h:74-92).
\* When take_one gives nullptr, a segment of a single element is returned;
\* in every other case the segment goes to enqueue_spread.
StealTake(t) ==
  LET l == qc[t]
      n == l.seg_start
      next == next_in_queue[n]
  IN /\ l.pc = "steal_take"
     /\ IF next # 0
        THEN /\ qc' = [qc EXCEPT ![t].pc = "spread", ![t].r = n,
                                 ![t].seg_start = next,
                                 ![t].held = Without(@, n)]
             /\ UNCHANGED returned
        ELSE IF l.seg_end = n
        THEN /\ qc' = [qc EXCEPT ![t] = QRet(l, n)]
             /\ returned' = [returned EXCEPT ![n] = Min(@ + 1, MaxReturned)]
        ELSE /\ qc' = [qc EXCEPT ![t].pc = "spread"]
             /\ UNCHANGED returned
     /\ UNCHANGED <<front, back, next_in_queue, allocated, content,
                    enq_count, ticket, by, deq_log, lifo, steals, spurious,
                    assert_failed>>

\* enqueue_spread, workstealingqueue.h:27-37: n = ls.take_one(); enqueue(n)
\* while there is one, then enqueue(ls), each on a queue of the thief, with
\* the first store of enqueue_segment (mpmcq.h:107).
Spread(t) ==
  LET l == qc[t]
      n == l.seg_start
      next == next_in_queue[n]
  IN /\ l.pc = "spread"
     /\ \E q \in CoreQueues(Thief) :
          IF next # 0
          THEN /\ qc' = [qc EXCEPT ![t].pc = "enq_xchg", ![t].op = "spread",
                                   ![t].q = q, ![t].seg_start = next,
                                   ![t].ls_start = n, ![t].ls_end = n,
                                   ![t].held = Without(@, n)]
               /\ next_in_queue' = [next_in_queue EXCEPT ![n] = 0]
          ELSE /\ qc' = [qc EXCEPT ![t].pc = "enq_xchg",
                                   ![t].op = "spread_last", ![t].q = q,
                                   ![t].ls_start = l.seg_start,
                                   ![t].ls_end = l.seg_end,
                                   ![t].seg_start = 0, ![t].seg_end = 0]
               /\ next_in_queue' = [next_in_queue EXCEPT ![l.seg_end] = 0]
     /\ UNCHANGED <<front, back, allocated, content, enq_count, ticket, by,
                    deq_log, returned, lifo, steals, spurious,
                    assert_failed>>

\* Empty queues: back{&front}, front{nullptr} (mpmcq.h:35, 39).
QueueInit ==
  /\ front = [q \in Queues |-> 0]
  /\ back = [q \in Queues |-> FrontAddr(q)]
  /\ next_in_queue = [n \in Items |-> 0]
  /\ qc = [t \in QThreads |-> QLocals]
  /\ allocated = 0
  /\ content = [q \in Queues |-> <<>>]
  /\ enq_count = [q \in Queues |-> 0]
  /\ ticket = [n \in Items |-> 0]
  /\ by = [n \in Items |-> 0]
  /\ deq_log = [q \in Queues |-> <<>>]
  /\ returned = [n \in Items |-> 0]
  /\ lifo = [n \in Items |-> [q |-> 0, ahead |-> {}]]
  /\ steals = 0
  /\ spurious = FALSE

-----------------------------------------------------------------------------
(* SchedulerThread: the loop of the worker of a core                       *)
(* (src/rt/sched/schedulerthread.h), on top of the queues above.  A worker *)
(* takes work with get_work and runs it; the work it runs schedules new    *)
(* work on the worker (schedule_fifo); a thread outside the scheduler      *)
(* schedules work on a core with schedule_lifo.  A step is one access to a *)
(* word other threads reach: an index of a WorkStealingQueue (read and     *)
(* written without synchronisation, workstealingqueue.h:12-14, so the read *)
(* and the write of ++index are two steps), or a step of the queue.        *)
(*                                                                         *)
(* ThreadPool (pause, unpause, the external event sources, the stop of the *)
(* threads) is not part of the sources at hand; Pause, Wake and the        *)
(* counter of sources follow its description: a worker that finds no work  *)
(* pauses unless a queue holds work; the last one to do so stops all       *)
(* workers unless an external event source is registered; scheduling from  *)
(* another thread and the removal of a source wake the paused workers.     *)

\* WrapIndex<N>::operator++, ds/wrapindex.h.
WrapInc(i) == (i + 1) % NSub

\* Core::next, the ring of the cores.
CoreNext(c) == (c % NCores) + 1

WLocals(c) ==
  [pc |-> "get_work", next_work |-> 0, batch |-> BATCH_SIZE,
   victim |-> CoreNext(c), running |-> TRUE, cur |-> 0, src |-> "none",
   work |-> 0, stage |-> "none", i |-> 0, tc |-> 0, idx |-> 0,
   after |-> "none"]

\* A worker that holds no call of the queue.
NoCall(l) ==
  [l EXCEPT !.work = 0, !.stage = "none", !.i = 0, !.tc = 0, !.idx = 0,
            !.after = "none"]

\* unpause, and the wake of remove_external_event_source: every paused
\* worker resumes the loop of steal and counts as active again.
Wake(w) ==
  [u \in Workers |-> IF w[u].pc = "paused"
                     THEN [w[u] EXCEPT !.pc = "steal_loop"] ELSE w[u]]

Paused == {u \in Workers : wk[u].pc = "paused"}

\* Worker t goes on with the locals l; wake tells that the step wakes the
\* paused workers.  History: a work item that starts to run is logged, with
\* the place it was taken from and the number of items the worker had
\* scheduled by then.
Go(t, l, wake) ==
  /\ wk' = IF wake THEN Wake([wk EXCEPT ![t] = l]) ELSE [wk EXCEPT ![t] = l]
  /\ run_log' = IF l.pc = "run" /\ wk[t].cur = 0
                THEN [run_log EXCEPT
                        ![t] = Append(@, [item |-> l.cur, src |-> l.src,
                                          nsched |-> Len(sched_log[t])])]
                ELSE run_log

\* run_inner, schedulerthread.h:207-211: get_work returned n; run it.
StartRun(l, n, src) == [NoCall(l) EXCEPT !.pc = "run", !.cur = n, !.src = src]

\* return_next_work() and then n, as get_work returns a dequeued item
\* (schedulerthread.h:154-158, 162-166, 171-175).
ReturnThenRun(l, n) ==
  [NoCall(l) EXCEPT !.pc = "rnw", !.after = "run_work", !.work = n]

\* A call of WorkStealingQueue::dequeue on the queues of core c.
StartDequeue(l, c, stage) ==
  [NoCall(l) EXCEPT !.pc = "wsq_deq", !.stage = stage, !.tc = c]

\* get_work, schedulerthread.h:170-182, once try_steal gave nothing: the
\* local item, or steal().
AfterTrySteal(l) ==
  IF l.next_work # 0
  THEN [StartRun(l, l.next_work, "next_work") EXCEPT !.next_work = 0]
  ELSE [NoCall(l) EXCEPT !.pc = "steal_loop"]

\* try_steal, schedulerthread.h:236-256, called at 170: dequeue from the
\* victim unless it is the own core.
SecondTrySteal(l, c) ==
  IF l.victim # c THEN StartDequeue(l, l.victim, "try2")
  ELSE AfterTrySteal([l EXCEPT !.victim = CoreNext(@)])

\* The worker of core c after WorkStealingQueue::dequeue gave n (0 for
\* nullptr), by the place of the call: try_steal for fairness (153), the own
\* queue (161), try_steal (170), and in steal the own queue (268) and the
\* victim (276-288).
AfterDequeue(l, c, n) ==
  CASE l.stage = "fair" ->
         IF n # 0 THEN ReturnThenRun([l EXCEPT !.victim = CoreNext(@)], n)
         ELSE StartDequeue([l EXCEPT !.victim = CoreNext(@)], c, "own")
    [] l.stage = "own" ->
         IF n # 0 THEN ReturnThenRun(l, n) ELSE SecondTrySteal(l, c)
    [] l.stage = "try2" ->
         IF n # 0 THEN ReturnThenRun([l EXCEPT !.victim = CoreNext(@)], n)
         ELSE AfterTrySteal([l EXCEPT !.victim = CoreNext(@)])
    [] l.stage = "steal_own" ->
         IF n # 0 THEN StartRun(l, n, "queue")
         ELSE IF l.victim # c THEN StartDequeue(l, l.victim, "steal_victim")
         ELSE [NoCall(l) EXCEPT !.victim = CoreNext(@), !.pc = "steal_pause"]
    [] OTHER ->
         IF n # 0 THEN StartRun(l, n, "queue")
         ELSE [NoCall(l) EXCEPT !.victim = CoreNext(@), !.pc = "steal_pause"]

\* The worker after return_next_work: get_work returns the item it dequeued,
\* or schedule_fifo stores w (schedulerthread.h:98) and the running work
\* goes on.
AfterReturn(l) ==
  IF l.after = "run_work" THEN StartRun(l, l.work, "queue")
  ELSE [NoCall(l) EXCEPT !.pc = "run", !.next_work = l.work]

q_state == <<front, back, next_in_queue, content, enq_count, ticket, by,
             deq_log, returned, lifo, steals, spurious, assert_failed>>

\* A variant of GetWork that takes the local item only when the queues of
\* the core are empty.
GetWork_queue_first(t) ==
  LET l == wk[t]
  IN /\ l.pc = "get_work"
     /\ IF l.next_work # 0 /\ l.batch # 0
           /\ \A q \in CoreQueues(t) : front[q] = 0
        THEN Go(t, [StartRun(l, l.next_work, "next_work") EXCEPT
                      !.next_work = 0, !.batch = l.batch - 1], FALSE)
        ELSE Go(t, [l EXCEPT !.pc = "fairness", !.batch = BATCH_SIZE], FALSE)
     /\ UNCHANGED <<q_state, qc, allocated, enqueue_index, dequeue_index,
                    should_steal_for_fairness, sched_log, pool, ext, item_body>>

\* get_work, schedulerthread.h:140-146: the local item first, while the
\* batch lasts.
GetWork(t) ==
  LET l == wk[t]
  IN /\ l.pc = "get_work"
     /\ IF l.next_work # 0 /\ l.batch # 0
        THEN Go(t, [StartRun(l, l.next_work, "next_work") EXCEPT
                      !.next_work = 0, !.batch = l.batch - 1], FALSE)
        ELSE Go(t, [l EXCEPT !.pc = "fairness", !.batch = BATCH_SIZE], FALSE)
     /\ UNCHANGED <<q_state, qc, allocated, enqueue_index, dequeue_index,
                    should_steal_for_fairness, sched_log, pool, ext, item_body>>

\* get_work, schedulerthread.h:148-153 and 161: with the flag of the core
\* set, clear it and try_steal (236-256); else dequeue from the own queue.
\* Only the worker of the core accesses the flag.
Fairness(t) ==
  LET l == wk[t]
  IN /\ l.pc = "fairness"
     /\ should_steal_for_fairness' =
          [should_steal_for_fairness EXCEPT ![t] = FALSE]
     /\ IF ~ should_steal_for_fairness[t]
        THEN Go(t, StartDequeue(l, t, "own"), FALSE)
        ELSE IF l.victim # t
        THEN Go(t, StartDequeue(l, l.victim, "fair"), FALSE)
        ELSE Go(t, StartDequeue([l EXCEPT !.victim = CoreNext(@)], t, "own"),
                FALSE)
     /\ UNCHANGED <<q_state, qc, allocated, enqueue_index, dequeue_index,
                    sched_log, pool, ext, item_body>>

\* WorkStealingQueue::dequeue, workstealingqueue.h:59-68: after N queues
\* return nullptr, else read dequeue_index for ++dequeue_index.
WsqDequeue(t) ==
  LET l == wk[t]
  IN /\ l.pc = "wsq_deq"
     /\ IF l.i = NSub
        THEN Go(t, AfterDequeue(l, t, 0), FALSE)
        ELSE Go(t, [l EXCEPT !.pc = "di_store",
                             !.idx = dequeue_index[l.tc]], FALSE)
     /\ UNCHANGED <<q_state, qc, allocated, enqueue_index, dequeue_index,
                    should_steal_for_fairness, sched_log, pool, ext, item_body>>

\* workstealingqueue.h:61: the write of ++dequeue_index, and the call of
\* dequeue on that queue.
DequeueIndex(t) ==
  LET l == wk[t]
  IN /\ l.pc = "di_store"
     /\ dequeue_index' = [dequeue_index EXCEPT ![l.tc] = WrapInc(l.idx)]
     /\ qc' = [qc EXCEPT ![t] = [QLocals EXCEPT
                 !.pc = "acq_load", !.op = "dequeue",
                 !.q = QId(l.tc, WrapInc(l.idx)), !.caller = "worker"]]
     /\ Go(t, [l EXCEPT !.pc = "in_deq", !.i = l.i + 1, !.idx = 0], FALSE)
     /\ UNCHANGED <<q_state, allocated, enqueue_index,
                    should_steal_for_fairness, sched_log, pool, ext, item_body>>

\* A variant of ReturnNextWork in which schedule_fifo keeps the item it
\* holds and enqueues the new one.
ReturnNextWork_swap(t) ==
  LET l == wk[t]
  IN /\ l.pc = "rnw"
     /\ IF l.next_work = 0
        THEN Go(t, AfterReturn(l), FALSE)
        ELSE IF l.after = "set_next"
        THEN Go(t, [l EXCEPT !.pc = "ei_store", !.idx = enqueue_index[t],
                             !.next_work = l.work, !.work = l.next_work],
                FALSE)
        ELSE Go(t, [l EXCEPT !.pc = "ei_store",
                             !.idx = enqueue_index[t]], FALSE)
     /\ UNCHANGED <<q_state, qc, allocated, enqueue_index, dequeue_index,
                    should_steal_for_fairness, sched_log, pool, ext, item_body>>

\* return_next_work, schedulerthread.h:123-127: nothing without a local
\* item; else core->q.enqueue(next_work), which reads enqueue_index for
\* ++enqueue_index (workstealingqueue.h:22).
ReturnNextWork(t) ==
  LET l == wk[t]
  IN /\ l.pc = "rnw"
     /\ IF l.next_work = 0
        THEN Go(t, AfterReturn(l), FALSE)
        ELSE Go(t, [l EXCEPT !.pc = "ei_store",
                             !.idx = enqueue_index[t]], FALSE)
     /\ UNCHANGED <<q_state, qc, allocated, enqueue_index, dequeue_index,
                    should_steal_for_fairness, sched_log, pool, ext, item_body>>

\* workstealingqueue.h:22, 43-46: the write of ++enqueue_index, and the call
\* of enqueue_segment for the single node, with its first store (mpmcq.h:107).
EnqueueIndex(t) ==
  LET l == wk[t]
  IN /\ l.pc = "ei_store"
     /\ enqueue_index' = [enqueue_index EXCEPT ![t] = WrapInc(l.idx)]
     /\ qc' = [qc EXCEPT ![t] = [QLocals EXCEPT
                 !.pc = "enq_xchg", !.op = "enqueue",
                 !.q = QId(t, WrapInc(l.idx)), !.ls_start = l.next_work,
                 !.ls_end = l.next_work, !.caller = "worker"]]
     /\ next_in_queue' = [next_in_queue EXCEPT ![l.next_work] = 0]
     /\ Go(t, [l EXCEPT !.pc = "in_enq", !.idx = 0], FALSE)
     /\ UNCHANGED <<front, back, content, enq_count, ticket, by, deq_log,
                    returned, lifo, steals, spurious, assert_failed,
                    allocated, dequeue_index, should_steal_for_fairness,
                    sched_log, pool, ext, item_body>>

\* work->run(), schedulerthread.h:211.  The work either schedules a new work
\* item w, which on a worker is schedule_fifo(w) (90-99: return_next_work
\* first), or it ends; a work item of the kind "remove" ends with
\* remove_external_event_source (runtimepause.cc:41-44).
RunWork(t) ==
  LET l == wk[t]
  IN /\ l.pc = "run"
     /\ \/ /\ allocated < MaxItems
           /\ allocated' = allocated + 1
           /\ sched_log' = [sched_log EXCEPT ![t] = Append(@, allocated + 1)]
           /\ Go(t, [l EXCEPT !.pc = "rnw", !.after = "set_next",
                              !.work = allocated + 1], FALSE)
           /\ UNCHANGED pool
        \/ /\ Go(t, [NoCall(l) EXCEPT !.pc = "get_work", !.cur = 0,
                                      !.src = "none"],
                 item_body[l.cur] = "remove")
           /\ pool' = IF item_body[l.cur] = "remove"
                      THEN [pool EXCEPT !.sources = @ - 1,
                                        !.active = @ + Cardinality(Paused)]
                      ELSE pool
           /\ UNCHANGED <<allocated, sched_log>>
     /\ UNCHANGED <<q_state, qc, enqueue_index, dequeue_index,
                    should_steal_for_fairness, ext, item_body>>

\* A variant of StealLoop that leaves the loop of steal without a look at
\* running.
StealLoop_exit(t) ==
  LET l == wk[t]
  IN /\ l.pc = "steal_loop"
     /\ \/ Go(t, StartDequeue(l, t, "steal_own"), FALSE)
        \/ Go(t, [NoCall(l) EXCEPT !.pc = "stopped"], FALSE)
     /\ UNCHANGED <<q_state, qc, allocated, enqueue_index, dequeue_index,
                    should_steal_for_fairness, sched_log, pool, ext, item_body>>

\* steal, schedulerthread.h:263-268: leave when stopped, else dequeue from
\* the own queue.
StealLoop(t) ==
  LET l == wk[t]
  IN /\ l.pc = "steal_loop"
     /\ IF l.running
        THEN Go(t, StartDequeue(l, t, "steal_own"), FALSE)
        ELSE Go(t, [NoCall(l) EXCEPT !.pc = "stopped"], FALSE)
     /\ UNCHANGED <<q_state, qc, allocated, enqueue_index, dequeue_index,
                    should_steal_for_fairness, sched_log, pool, ext, item_body>>

\* steal, schedulerthread.h:290-311: Scheduler::get().pause(), once the
\* timeout has passed.  The pool refuses while a queue holds work; else the
\* worker pauses, unless it is the last one active and no external event
\* source is registered: then it stops every worker and wakes them.
Pause(t) ==
  LET l == wk[t]
      stop == [u \in Workers |-> [wk[u] EXCEPT !.running = FALSE]]
  IN /\ l.pc = "steal_pause"
     /\ IF \E q \in Queues : back[q] # FrontAddr(q)
        THEN /\ Go(t, [l EXCEPT !.pc = "steal_loop"], FALSE)
             /\ UNCHANGED pool
        ELSE IF pool.active > 1 \/ pool.sources > 0
        THEN /\ Go(t, [l EXCEPT !.pc = "paused"], FALSE)
             /\ pool' = [pool EXCEPT !.active = @ - 1,
                                     !.idled = @ \/ pool.active = 1]
        ELSE /\ wk' = Wake([stop EXCEPT ![t].pc = "steal_loop"])
             /\ pool' = [pool EXCEPT !.active = @ + Cardinality(Paused)]
             /\ UNCHANGED run_log
     /\ UNCHANGED <<q_state, qc, allocated, enqueue_index, dequeue_index,
                    should_steal_for_fairness, sched_log, ext, item_body>>

\* A thread outside the scheduler schedules a new work item on the core
\* Owner:
\* schedule_lifo, schedulerthread.h:101-107, c->q.enqueue_front(w), which
\* reads enqueue_index for ++enqueue_index (workstealingqueue.h:51).  The
\* thread holds an external event source; the last item it schedules is the
\* one that removes the source (runtimepause.cc:22-47).
ExtSchedule ==
  /\ ext.pc = "idle"
  /\ ~ ext.done
  /\ allocated < MaxItems
  /\ allocated' = allocated + 1
  /\ \E c \in {Owner}, k \in {"plain", "remove"} :
       /\ ext' = [ext EXCEPT !.pc = "ei_store", !.c = c,
                             !.w = allocated + 1,
                             !.idx = enqueue_index[c],
                             !.done = (k = "remove")]
       /\ item_body' = [item_body EXCEPT ![allocated + 1] = k]
  /\ UNCHANGED <<q_state, qc, wk, run_log, enqueue_index, dequeue_index,
                 should_steal_for_fairness, sched_log, pool>>

\* workstealingqueue.h:51: the write of ++enqueue_index, and the call of
\* enqueue_front on that queue, with the first store of enqueue_segment.
ExtEnqueueIndex ==
  /\ ext.pc = "ei_store"
  /\ enqueue_index' = [enqueue_index EXCEPT ![ext.c] = WrapInc(ext.idx)]
  /\ qc' = [qc EXCEPT ![External] = [QLocals EXCEPT
              !.pc = "enq_xchg", !.op = "enqueue_front",
              !.q = QId(ext.c, WrapInc(ext.idx)), !.ls_start = ext.w,
              !.ls_end = ext.w, !.caller = "external"]]
  /\ next_in_queue' = [next_in_queue EXCEPT ![ext.w] = 0]
  /\ ext' = [ext EXCEPT !.pc = "in_enq", !.idx = 0]
  /\ UNCHANGED <<front, back, content, enq_count, ticket, by, deq_log,
                 returned, lifo, steals, spurious, assert_failed, allocated,
                 wk, run_log, dequeue_index, should_steal_for_fairness,
                 sched_log, pool, item_body>>

\* What a thread does when its call of the queue returns, in the step of
\* the return.  A worker in WorkStealingQueue::dequeue returns the item or
\* tries the next queue (workstealingqueue.h:61-65); in return_next_work it
\* clears next_work and calls unpause (schedulerthread.h:128-130); the
\* thread outside calls unpause (113).
Resume(t) ==
  LET l == IF t \in Workers THEN wk[t] ELSE WLocals(1)
      n == qc'[t].res
  IN /\ IF qc'[t].pc # "ret" \/ qc[t].pc = "ret"
        THEN UNCHANGED <<wk, run_log, pool, ext>>
        ELSE IF t = External
        THEN /\ ext' = [ext EXCEPT !.pc = "idle", !.c = 0, !.w = 0]
             /\ wk' = Wake(wk)
             /\ pool' = [pool EXCEPT !.active = @ + Cardinality(Paused)]
             /\ UNCHANGED run_log
        ELSE IF l.pc = "in_enq"
        THEN /\ Go(t, AfterReturn([l EXCEPT !.next_work = 0]), TRUE)
             /\ pool' = [pool EXCEPT !.active = @ + Cardinality(Paused)]
             /\ UNCHANGED ext
        ELSE /\ IF n # 0 THEN Go(t, AfterDequeue(l, t, n), FALSE)
                ELSE Go(t, [l EXCEPT !.pc = "wsq_deq"], FALSE)
             /\ UNCHANGED <<pool, ext>>
     /\ UNCHANGED <<enqueue_index, dequeue_index, should_steal_for_fairness,
                    sched_log, item_body>>

\* The workers before run_inner takes its first work
\* (schedulerthread.h:199-205), the indexes and the flag of every core
\* (workstealingqueue.h:12-14, core.h:22), the pool with all workers active
\* and one external event source, held by the thread outside.  History:
\* pool.idled tells that all workers were paused at once.
CoreInit ==
  /\ wk = [t \in Workers |-> WLocals(t)]
  /\ enqueue_index = [c \in Cores |-> 0]
  /\ dequeue_index = [c \in Cores |-> 0]
  /\ should_steal_for_fairness = [c \in Cores |-> TRUE]
  /\ sched_log = [t \in Workers |-> <<>>]
  /\ run_log = [t \in Workers |-> <<>>]
  /\ pool = [active |-> NCores, sources |-> 1, idled |-> FALSE]
  /\ ext = [pc |-> "idle", done |-> FALSE, c |-> 0, w |-> 0, idx |-> 0]
  /\ item_body = [n \in Items |-> "plain"]

-----------------------------------------------------------------------------
(* The programs the model runs.                                            *)

Moves(bodies, c) ==
  LET RECURSIVE cnt(_, _)
      cnt(b, j) == IF b > Len(bodies) THEN 0
                   ELSE IF j > Len(bodies[b]) THEN cnt(b + 1, 1)
                   ELSE (IF bodies[b][j].c = c /\ bodies[b][j].mv THEN 1 ELSE 0)
                        + cnt(b, j + 1)
  IN cnt(1, 1)

\* A program: the callers keep one reference to every cown, and hold one
\* more for every request that moves a reference into the scheduler.
Program(bodies, prog) ==
  [bodies |-> bodies, prog |-> prog,
   rc0 |-> [c \in Cowns |-> 1 + Moves(bodies, c)],
   yields |-> [b \in 1..Len(bodies) |-> 0]]

\* A program whose body b sets the rerun flag in its first y[b] runs.
YieldProgram(bodies, prog, y) == [Program(bodies, prog) EXCEPT !.yields = y]

\* One behaviour on idle cowns, readers and writers, moved or not.
Single ==
  { Program(<< <<m>> >>, << << <<1>> >> >>) :
      m \in UNION {{W(c), R(c), MW(c), MR(c)} : c \in Cowns} }
  \cup
  { Program(<< <<m1, m2>> >>, << << <<1>> >> >>) :
      m1 \in {R(1), MW(1)}, m2 \in {W(2), MR(2)} }

\* One cown, three threads, one single-slot behaviour each: every mix of
\* readers and writers (the shape of test/func/simp_read).
SimpRead ==
  { Program(<< <<m1>>, <<m2>>, <<m3>> >>,
            << << <<1>> >>, << <<2>> >>, << <<3>> >> >>) :
      m1 \in {W(1)}, m2 \in {R(1), W(1)}, m3 \in {R(1), W(1)} }
  \cup { Program(<< <<R(1)>>, <<R(1)>>, <<R(1)>> >>,
                 << << <<1>> >>, << <<2>> >>, << <<3>> >> >>),
         \* readers, then a writer, by one thread: in calls of their own,
         \* and in one batch
         Program(<< <<R(1)>>, <<R(1)>>, <<W(1)>> >>,
                 << << <<1>>, <<2>>, <<3>> >> >>),
         Program(<< <<R(1)>>, <<R(1)>>, <<W(1)>> >>,
                 << << <<1, 2, 3>> >> >>) }

\* One thread schedules W1, R1, W2 on one cown, one after the other
\* (spec 8(b)); a thread schedules a reader that moves its reference, a
\* reader and a writer while another thread's writer holds the cown.
Sequential ==
  { Program(<< <<W(1)>>, <<R(1)>>, <<W(1)>> >>,
            << << <<1>>, <<2>>, <<3>> >> >>),
    Program(<< <<W(1)>>, <<MR(1)>>, <<R(1)>>, <<W(1)>> >>,
            << << <<1>> >>, << <<2>>, <<3>>, <<4>> >> >>) }

\* Two threads, overlapping cown sets in different request orders
\* (spec 8(c), test/func/backpressure/deadlock.h).
Overlapping ==
  { Program(<< <<W(p[1]), W(p[2])>>, <<W(p[2]), W(p[1])>> >>,
            << << <<1>> >>, << <<2>> >> >>) :
      p \in {q \in Cowns \X Cowns : q[1] < q[2]} }
  \cup
  { Program(<< <<R(1), W(2)>>, <<W(2), R(1)>>, <<W(1)>> >>,
            << << <<1>> >>, << <<2>>, <<3>> >> >>) }

\* Batches: several behaviours in one call (test/func/atomic-sched).
Batches ==
  { Program(<< <<W(1)>>, <<R(1)>>, <<R(1)>>, <<W(1)>> >>,
            << << <<1, 2>> >>, << <<3, 4>> >> >>),
    Program(<< <<W(1)>>, <<W(2)>>, <<W(1), W(2)>>, <<W(2), W(1)>> >>,
            << << <<1, 2, 3>> >>, << <<4>> >> >>),
    Program(<< <<W(2)>>, <<R(1)>>, <<W(2)>>, <<R(1)>> >>,
            << << <<1>> >>, << <<2, 3, 4>> >> >>),
    Program(<< <<R(2)>>, <<R(1)>>, <<W(2)>>, <<R(1)>> >>,
            << << <<1>> >>, << <<2, 3, 4>> >> >>) }

\* The same cown requested more than once by one behaviour
\* (test/func/when-repeated-cown, repeat_shape of test/func/atomic-sched),
\* alone, in a batch, and as the last of a thread's behaviours on the cown.
Repeated ==
  { Program(<< <<m1, m2>> >>, << << <<1>> >> >>) :
      m1 \in {R(1), W(1)}, m2 \in {R(1), W(1), MW(1)} }
  \cup
  { Program(<< <<W(1)>>, <<W(1), W(1)>>, <<W(1), W(2), W(1)>>, <<W(1)>> >>,
            << << <<1>>, <<2>> >>, << <<3>>, <<4>> >> >>),
    Program(<< <<R(1), W(1)>>, <<R(1)>>, <<W(1)>> >>,
            << << <<1, 2>> >>, << <<3>> >> >>),
    Program(<< <<W(1)>>, <<R(1), R(1)>> >>, << << <<1>> >>, << <<2>> >> >>),
    Program(<< <<W(1)>>, <<R(1)>>, <<R(1)>>, <<R(1), W(1)>> >>,
            << << <<1>>, <<2>>, <<3>>, <<4>> >> >>) }

\* Requests that move a reference (test/func/when-transfer).
Transfers ==
  { Program(<< <<W(1)>>, <<MW(1)>> >>, << << <<1>>, <<2>> >> >>),
    Program(<< <<W(1)>>, <<MW(1)>>, <<MW(2)>> >>, << << <<1>>, <<2, 3>> >> >>),
    Program(<< <<MW(1)>>, <<MW(1)>> >>, << << <<1, 2>> >> >>),
    Program(<< <<MR(1)>>, <<MR(1), MW(2)>> >>, << << <<1>> >>, << <<2>> >> >>),
    Program(<< <<W(1)>>, <<MR(1)>> >>, << << <<1>> >>, << <<2>> >> >>) }

\* Bodies that yield (test/func/yield): a behaviour that yields before the
\* next behaviour on its cown, scheduled by the same thread or by another
\* one; a behaviour alone that yields; a reader that yields among the
\* readers and writers of two threads.
Yielding ==
  { YieldProgram(<< <<W(1)>>, <<W(1)>> >>, p, <<y, 0>>) :
      p \in { << << <<1>>, <<2>> >> >>, << << <<1>> >>, << <<2>> >> >> },
      y \in 1..MaxYields }
  \cup
  { YieldProgram(<< <<W(1)>> >>, << << <<1>> >> >>, <<y>>) : y \in 1..MaxYields }
  \cup
  { YieldProgram(<< <<R(1)>>, <<R(1)>>, <<W(1)>> >>,
                 << << <<1>> >>, << <<2>>, <<3>> >> >>, <<1, 0, 0>>),
    YieldProgram(<< <<W(1)>>, <<R(1)>>, <<R(1)>>, <<W(1)>> >>,
                 << << <<1>> >>, << <<2>>, <<3>>, <<4>> >> >>, <<0, 0, 1, 0>>) }

Scenarios ==
  Single \cup SimpRead \cup Sequential \cup Overlapping \cup Batches \cup Repeated
    \cup Transfers \cup Yielding

-----------------------------------------------------------------------------
(* A Notification (src/rt/sched/notification.h) on one cown.               *)
(*                                                                         *)
(* The behaviour of a notification requests its cown for writing           *)
(* (make_notification, src/rt/cpp/lambdabehaviour.h:42-46), and so do the  *)
(* lambdas of the tests; among writers the chain of a cown is a queue, and *)
(* n_chain is that queue.  The notification's behaviour has id TheNote.    *)
(* Callers of notify are threads outside the cown and lambdas that run     *)
(* with the cown (test/func/notify/notify_alternate.h:49-55).              *)

\* Bounds: threads outside, lambdas, and calls of notify per outside thread.
NNotifiers == 2
NLambdas == 1
MaxNotifies == 2

TheNote == 0
Notifiers == 1..NNotifiers
Lambdas == (NNotifiers + 1)..(NNotifiers + NLambdas)
Callers == Notifiers \cup Lambdas

\* Where a caller goes when notify returns: a lambda releases the cown.
NotifyReturn(t) == IF t \in Lambdas THEN "release" ELSE "idle"

\* Variant of NotifyExchange used to test the properties: the caller
\* schedules whatever the status was.
NotifyExchange_always(t) ==
  /\ \/ t \in Notifiers /\ n_call[t].pc = "idle" /\ n_call[t].calls < MaxNotifies
     \/ t \in Lambdas /\ n_call[t].pc = "body"
  /\ n_status' = "Requested"
  /\ n_call' = [n_call EXCEPT ![t].pc = "acquire", ![t].calls = @ + 1]
  /\ n_owed' = TRUE
  /\ n_late' = IF n_status = "Running" THEN n_late + 1 ELSE n_late
  /\ UNCHANGED <<n_rc, n_chain, n_run, n_starts, n_release>>

\* notify, the exchange (notification.h:154): the status becomes Requested;
\* the caller schedules only if the status was Waiting.
NotifyExchange(t) ==
  /\ \/ t \in Notifiers /\ n_call[t].pc = "idle" /\ n_call[t].calls < MaxNotifies
     \/ t \in Lambdas /\ n_call[t].pc = "body"
  /\ n_status' = "Requested"
  /\ n_call' = [n_call EXCEPT
       ![t].pc = IF n_status = "Waiting" THEN "acquire" ELSE NotifyReturn(t),
       ![t].calls = @ + 1]
  /\ n_owed' = TRUE
  /\ n_late' = IF n_status = "Running" THEN n_late + 1 ELSE n_late
  /\ UNCHANGED <<n_rc, n_chain, n_run, n_starts, n_release>>

\* notify, Shared::acquire(this) (notification.h:159).
NotifyAcquire(t) ==
  /\ n_call[t].pc = "acquire"
  /\ n_rc' = n_rc + 1
  /\ n_call' = [n_call EXCEPT ![t].pc = "schedule"]
  /\ UNCHANGED <<n_status, n_chain, n_run, n_owed, n_starts, n_late, n_release>>

\* schedule (notification.h:137-142): schedule_many of the one behaviour.
schedule_note == Append(n_chain, TheNote)

\* notify, schedule() (notification.h:160).
NotifySchedule(t) ==
  /\ n_call[t].pc = "schedule"
  /\ n_chain' = schedule_note
  /\ n_call' = [n_call EXCEPT ![t].pc = NotifyReturn(t)]
  /\ UNCHANGED <<n_status, n_rc, n_run, n_owed, n_starts, n_late, n_release>>

\* schedule_lambda(a, ...) of a lambda that notifies
\* (notify_alternate.h:49, notify_interleave.h:78).
LambdaSchedule(t) ==
  /\ t \in Lambdas
  /\ n_call[t].pc = "new"
  /\ n_chain' = Append(n_chain, t)
  /\ n_call' = [n_call EXCEPT ![t].pc = "queued"]
  /\ UNCHANGED <<n_status, n_rc, n_run, n_owed, n_starts, n_late, n_release>>

\* The lambda has the cown and starts.
LambdaRun(t) ==
  /\ t \in Lambdas
  /\ n_call[t].pc = "queued"
  /\ n_chain # <<>> /\ Head(n_chain) = t
  /\ n_call' = [n_call EXCEPT ![t].pc = "body"]
  /\ UNCHANGED <<n_status, n_rc, n_chain, n_run, n_owed, n_starts, n_late,
                 n_release>>

\* The lambda has returned and releases the cown.
LambdaRelease(t) ==
  /\ t \in Lambdas
  /\ n_call[t].pc = "release"
  /\ n_chain' = Tail(n_chain)
  /\ n_call' = [n_call EXCEPT ![t].pc = "done"]
  /\ UNCHANGED <<n_status, n_rc, n_run, n_owed, n_starts, n_late, n_release>>

\* invoke (notification.h:55-64): the behaviour has its cown and a worker
\* runs its Work.
NoteInvoke ==
  /\ n_run = "idle"
  /\ n_chain # <<>> /\ Head(n_chain) = TheNote
  /\ n_run' = "set_running"
  /\ UNCHANGED <<n_status, n_rc, n_chain, n_call, n_owed, n_starts, n_late,
                 n_release>>

\* set_running (notification.h:107-115): a store.
set_running ==
  /\ n_run = "set_running"
  /\ n_status' = "Running"
  /\ n_run' = "body"
  /\ UNCHANGED <<n_rc, n_chain, n_call, n_owed, n_starts, n_late, n_release>>

\* invoke, the body starts (notification.h:66).
NoteBody ==
  /\ n_run = "body"
  /\ n_run' = "release_all"
  /\ n_owed' = FALSE
  /\ n_starts' = n_starts + 1
  /\ UNCHANGED <<n_status, n_rc, n_chain, n_call, n_late, n_release>>

\* invoke, release_all and reset (notification.h:68-72).
NoteReleaseAll ==
  /\ n_run = "release_all"
  /\ n_chain' = Tail(n_chain)
  /\ n_run' = "finished_running"
  /\ UNCHANGED <<n_status, n_rc, n_call, n_owed, n_starts, n_late, n_release>>

\* finished_running with a store in place of the compare-and-swap.
finished_running_store ==
  /\ n_run = "finished_running"
  /\ n_status' = "Waiting"
  /\ n_run' = "idle"
  /\ n_release' = n_release + 1
  /\ UNCHANGED <<n_rc, n_chain, n_call, n_owed, n_starts, n_late>>

\* finished_running, the compare-and-swap (notification.h:117-135): back to
\* Waiting only if no request came while running; otherwise schedule again.
finished_running ==
  /\ n_run = "finished_running"
  /\ n_status' = IF n_status = "Running" THEN "Waiting" ELSE n_status
  /\ n_run' = IF n_status = "Running" THEN "idle" ELSE "reschedule"
  /\ n_release' = IF n_status = "Running" THEN n_release + 1 ELSE n_release
  /\ UNCHANGED <<n_rc, n_chain, n_call, n_owed, n_starts, n_late>>

\* finished_running, Shared::release(this) of a run that went back to
\* Waiting (notification.h:127); the next run may have begun.
NoteRelease ==
  /\ n_release > 0
  /\ n_release' = n_release - 1
  /\ n_rc' = n_rc - 1
  /\ UNCHANGED <<n_status, n_chain, n_call, n_run, n_owed, n_starts, n_late>>

\* finished_running, schedule() again (notification.h:134).
NoteReschedule ==
  /\ n_run = "reschedule"
  /\ n_chain' = schedule_note
  /\ n_run' = "idle"
  /\ UNCHANGED <<n_status, n_rc, n_call, n_owed, n_starts, n_late, n_release>>

\* A new notification: Waiting (notification.h:35), one reference, its
\* maker's.
NotifyInit ==
  /\ n_status = "Waiting"
  /\ n_rc = 1
  /\ n_chain = <<>>
  /\ n_call = [t \in Callers |->
                 [pc |-> IF t \in Lambdas THEN "new" ELSE "idle", calls |-> 0]]
  /\ n_run = "idle"
  /\ n_owed = FALSE
  /\ n_starts = 0
  /\ n_late = 0
  /\ n_release = 0

-----------------------------------------------------------------------------

\* SchedInit without the extra 1 in exec_count_down.
SchedInit_no_extra(s, r) ==
  /\ scen = s
  /\ last_slot = [c \in Cowns |-> Null]
  /\ next_writer = [c \in Cowns |-> Null]
  /\ read_ref_count = [c \in Cowns |-> 0]
  /\ rc = r
  /\ slots = [a \in SlotAddrs |->
                NewSlot(scen.bodies[AddrBeh(a)][(a % 32) \div 4])]
  /\ exec_count_down = [b \in Behs |-> Len(scen.bodies[b])]
  /\ th = [t \in Threads |->
             [pc |-> "idle", g |-> 1, i |-> 0, prev |-> Null,
              chain_info |-> <<>>, ec |-> <<>>]]
  /\ be = [b \in Behs |-> BehLocals("new", 0)]
  /\ chain_order = [c \in Cowns |-> <<>>]
  /\ pushed = [b \in Behs |-> 0]
  /\ assert_failed = FALSE

\* The state of the scheduler after construction, for program s and strong
\* counts r.
SchedInit(s, r) ==
  /\ scen = s
  /\ last_slot = [c \in Cowns |-> Null]
  /\ next_writer = [c \in Cowns |-> Null]
  /\ read_ref_count = [c \in Cowns |-> 0]
  /\ rc = r
  /\ slots = [a \in SlotAddrs |->
                NewSlot(scen.bodies[AddrBeh(a)][(a % 32) \div 4])]
  /\ exec_count_down = [b \in Behs |-> Len(scen.bodies[b]) + 1]
  /\ th = [t \in Threads |->
             [pc |-> "idle", g |-> 1, i |-> 0, prev |-> Null,
              chain_info |-> <<>>, ec |-> <<>>]]
  /\ be = [b \in Behs |-> BehLocals("new", 0)]
  /\ chain_order = [c \in Cowns |-> <<>>]
  /\ pushed = [b \in Behs |-> 0]
  /\ assert_failed = FALSE

\* A cown nobody holds a weak reference to: the strong count owns one weak
\* count (shared.h:36).
SharedInit(held) ==
  /\ weak_count = [c \in Cowns |-> 1 + (IF c = TheCown THEN held ELSE 0)]
  /\ deallocs = [c \in Cowns |-> 0]
  /\ collects = [c \in Cowns |-> 0]

\* The work of workers that always have work: one loop per core, a work item
\* that schedules itself again each time it runs (loop of fair.cc:22-36), one
\* work item that is scheduled from outside, and the token of each core
\* (Core::token_work, core.h:28-34).
Loops == Cores
Waiting == NCores + 1
Token(c) == NCores + 1 + c
Tokens == {Token(c) : c \in Cores}

FairLocals(c) ==
  [pc |-> "get_work", next_work |-> 0, batch |-> BATCH_SIZE,
   victim |-> CoreNext(c), work |-> 0, after |-> "none", ret |-> "none"]

\* Every core starts with its loop in its queue.  token_work is a public
\* member that these files never enqueue; tok tells whether the code that
\* creates the cores has put each token into the queue of its core.
FairInit(tok) ==
  /\ f_q = [c \in Cores |-> IF tok THEN <<Token(c), c>> ELSE <<c>>]
  /\ f_wk = [c \in Workers |-> FairLocals(c)]
  /\ f_waiting = "none"

Init ==
  /\ \E s \in Scenarios : SchedInit(s, s.rc0)
  /\ SharedInit(0)
  /\ cl = <<>>
  /\ QueueInit
  /\ CoreInit
  /\ NotifyInit
  /\ FairInit(FALSE)

Next ==
  \/ \E t \in Threads : SchedulePrepare(t) /\ UNCHANGED <<shvars, qvars, cvars, nvars, fvars>>
  \/ \E t \in Threads : Acquire(t) /\ UNCHANGED <<shvars, qvars, cvars, nvars, fvars>>
  \/ \E t \in Threads : Link(t) /\ UNCHANGED <<shvars, qvars, cvars, nvars, fvars>>
  \/ \E t \in Threads : AddRead(t) /\ UNCHANGED <<shvars, qvars, cvars, nvars, fvars>>
  \/ \E t \in Threads : ReleasePhase(t) /\ UNCHANGED <<shvars, qvars, cvars, nvars, fvars>>
  \/ \E t \in Threads : Process(t) /\ UNCHANGED <<shvars, qvars, cvars, nvars, fvars>>
  \/ \E t \in Threads : TryWrite(t) /\ UNCHANGED <<shvars, qvars, cvars, nvars, fvars>>
  \/ \E t \in Threads : TryWriteAdd(t) /\ UNCHANGED <<shvars, qvars, cvars, nvars, fvars>>
  \/ \E t \in Threads : TryWriteClear(t) /\ UNCHANGED <<shvars, qvars, cvars, nvars, fvars>>
  \/ \E t \in Threads : NextWriter(t) /\ UNCHANGED <<shvars, qvars, cvars, nvars, fvars>>
  \/ \E t \in Threads : Resolve(t) /\ UNCHANGED <<shvars, qvars, cvars, nvars, fvars>>
  \/ \E t \in Threads : ResolveSub(t) /\ UNCHANGED <<shvars, qvars, cvars, nvars, fvars>>
  \/ \E b \in Behs : Run(b) /\ UNCHANGED <<shvars, qvars, cvars, nvars, fvars>>
  \/ \E b \in Behs : Rerun(b) /\ UNCHANGED <<shvars, qvars, cvars, nvars, fvars>>
  \/ \E b \in Behs : Finished(b) /\ UNCHANGED <<shvars, qvars, cvars, nvars, fvars>>
  \/ \E b \in Behs : Release(b) /\ UNCHANGED <<shvars, qvars, cvars, nvars, fvars>>
  \/ \E b \in Behs : DropRead(b) /\ UNCHANGED <<shvars, qvars, cvars, nvars, fvars>>
  \/ \E b \in Behs : ClearPending(b) /\ UNCHANGED <<shvars, qvars, cvars, nvars, fvars>>
  \/ \E b \in Behs : WakeupLoad(b) /\ UNCHANGED <<shvars, qvars, cvars, nvars, fvars>>
  \/ \E b \in Behs : WakeupClear(b) /\ UNCHANGED <<shvars, qvars, cvars, nvars, fvars>>
  \/ \E b \in Behs : ReleaseReadCown(b) /\ UNCHANGED <<shvars, qvars, cvars, nvars, fvars>>
  \/ \E b \in Behs : ReleaseCown(b) /\ UNCHANGED <<shvars, qvars, cvars, nvars, fvars>>
  \/ \E b \in Behs : BehResolve(b) /\ UNCHANGED <<shvars, qvars, cvars, nvars, fvars>>
  \/ \E b \in Behs : BehResolveSub(b) /\ UNCHANGED <<shvars, qvars, cvars, nvars, fvars>>
  \/ \E b \in Behs : WakeReaders(b) /\ UNCHANGED <<shvars, qvars, cvars, nvars, fvars>>
  \/ \E b \in Behs : AcquireCown(b) /\ UNCHANGED <<shvars, qvars, cvars, nvars, fvars>>
  \/ \E b \in Behs : ReadAvailable(b) /\ UNCHANGED <<shvars, qvars, cvars, nvars, fvars>>
  \/ \E b \in Behs : CheckNext(b) /\ UNCHANGED <<shvars, qvars, cvars, nvars, fvars>>
  \/ \E b \in Behs : AddCount(b) /\ UNCHANGED <<shvars, qvars, cvars, nvars, fvars>>
  \/ \E b \in Behs : WTryWrite(b) /\ UNCHANGED <<shvars, qvars, cvars, nvars, fvars>>
  \/ \E b \in Behs : WTryWriteAdd(b) /\ UNCHANGED <<shvars, qvars, cvars, nvars, fvars>>
  \/ \E b \in Behs : WNextWriter(b) /\ UNCHANGED <<shvars, qvars, cvars, nvars, fvars>>

Spec == Init /\ [][Next]_vars

-----------------------------------------------------------------------------
(* The reference counts of one cown under its client threads.              *)

NoProgram == Program(<<>>, <<>>)

\* Every client holds at most one strong and one weak reference, and at least
\* one strong reference exists; the counts are the references held, plus the
\* weak count the strong count owns.
InitShared ==
  \E hs \in [Clients -> 0..1], hw \in [Clients -> 0..1] :
     /\ \E t \in Clients : hs[t] = 1
     /\ cl = [t \in Clients |-> ClientLocals(hs[t], hw[t])]
     /\ SchedInit(NoProgram,
                  [c \in Cowns |-> IF c = TheCown
                                   THEN Sum(hs, Clients)
                                   ELSE 1])
     /\ SharedInit(Sum(hw, Clients))
     /\ QueueInit
     /\ CoreInit
     /\ NotifyInit
     /\ FairInit(FALSE)

sh_unchanged ==
  UNCHANGED <<scen, last_slot, next_writer, read_ref_count, slots,
              exec_count_down, th, be, chain_order, pushed, qvars, cvars, nvars,
              fvars>>

NextShared ==
  \/ \E t \in Clients : ShAcquire(t) /\ sh_unchanged
  \/ \E t \in Clients : ShRelease(t) /\ sh_unchanged
  \/ \E t \in Clients : ShCollect(t) /\ sh_unchanged
  \/ \E t \in Clients : ShDropWeak(t) /\ sh_unchanged
  \/ \E t \in Clients : ShWeakRelease(t) /\ sh_unchanged
  \/ \E t \in Clients : ShDealloc(t) /\ sh_unchanged
  \/ \E t \in Clients : ShWeakAcquire(t) /\ sh_unchanged
  \/ \E t \in Clients : ShPromoteLoad(t) /\ sh_unchanged
  \/ \E t \in Clients : ShPromote(t) /\ sh_unchanged

SpecShared == InitShared /\ [][NextShared]_vars

-----------------------------------------------------------------------------
(* The queues of work items under their client threads.                    *)

InitQueue ==
  /\ SchedInit(NoProgram, [c \in Cowns |-> 1])
  /\ SharedInit(0)
  /\ cl = <<>>
  /\ QueueInit
  /\ CoreInit
  /\ NotifyInit
  /\ FairInit(FALSE)

q_unchanged ==
  UNCHANGED <<scen, last_slot, next_writer, read_ref_count, rc, slots,
              exec_count_down, th, be, chain_order, pushed, shvars, cvars, nvars,
              fvars>>

NextQueue ==
  \/ \E t \in QThreads : QEnqueue(t) /\ q_unchanged
  \/ \E t \in QThreads : QEnqueueFront(t) /\ q_unchanged
  \/ \E t \in QThreads : EnqueueExchange(t) /\ q_unchanged
  \/ \E t \in QThreads : EnqueueLink(t) /\ q_unchanged
  \/ \E t \in QThreads : QDequeue(t) /\ q_unchanged
  \/ \E t \in QThreads : QSteal(t) /\ q_unchanged
  \/ \E t \in QThreads : AcquireFront(t) /\ q_unchanged
  \/ \E t \in QThreads : DequeueNext(t) /\ q_unchanged
  \/ \E t \in QThreads : DequeueStore(t) /\ q_unchanged
  \/ \E t \in QThreads : DequeueClose(t) /\ q_unchanged
  \/ \E t \in QThreads : DequeueRestore(t) /\ q_unchanged
  \/ \E t \in QThreads : DequeueAllBack(t) /\ q_unchanged
  \/ \E t \in QThreads : StealTake(t) /\ q_unchanged
  \/ \E t \in QThreads : Spread(t) /\ q_unchanged

SpecQueue == InitQueue /\ [][NextQueue]_vars

-----------------------------------------------------------------------------
(* The workers of the cores, their queues and a thread outside.            *)

InitCore ==
  /\ SchedInit(NoProgram, [c \in Cores |-> 1])
  /\ SharedInit(0)
  /\ cl = <<>>
  /\ QueueInit
  /\ CoreInit
  /\ NotifyInit
  /\ FairInit(FALSE)

c_unchanged ==
  UNCHANGED <<scen, last_slot, next_writer, read_ref_count, rc, slots,
              exec_count_down, th, be, chain_order, pushed, shvars, nvars, fvars>>

NextCore ==
  \/ \E t \in Workers : GetWork(t) /\ c_unchanged
  \/ \E t \in Workers : Fairness(t) /\ c_unchanged
  \/ \E t \in Workers : WsqDequeue(t) /\ c_unchanged
  \/ \E t \in Workers : DequeueIndex(t) /\ c_unchanged
  \/ \E t \in Workers : ReturnNextWork(t) /\ c_unchanged
  \/ \E t \in Workers : EnqueueIndex(t) /\ c_unchanged
  \/ \E t \in Workers : RunWork(t) /\ c_unchanged
  \/ \E t \in Workers : StealLoop(t) /\ c_unchanged
  \/ \E t \in Workers : Pause(t) /\ c_unchanged
  \/ ExtSchedule /\ c_unchanged
  \/ ExtEnqueueIndex /\ c_unchanged
  \/ \E t \in QThreads : EnqueueExchange(t) /\ Resume(t) /\ c_unchanged
  \/ \E t \in QThreads : EnqueueLink(t) /\ Resume(t) /\ c_unchanged
  \/ \E t \in QThreads : AcquireLoad(t) /\ Resume(t) /\ c_unchanged
  \/ \E t \in QThreads : AcquireFront(t) /\ Resume(t) /\ c_unchanged
  \/ \E t \in QThreads : DequeueNext(t) /\ Resume(t) /\ c_unchanged
  \/ \E t \in QThreads : DequeueStore(t) /\ Resume(t) /\ c_unchanged
  \/ \E t \in QThreads : DequeueClose(t) /\ Resume(t) /\ c_unchanged
  \/ \E t \in QThreads : DequeueRestore(t) /\ Resume(t) /\ c_unchanged

SpecCore == InitCore /\ [][NextCore]_vars

-----------------------------------------------------------------------------
(* A notification under its callers and the worker that runs it.           *)

InitNotify ==
  /\ SchedInit(NoProgram, [c \in Cowns |-> 1])
  /\ SharedInit(0)
  /\ cl = <<>>
  /\ QueueInit
  /\ CoreInit
  /\ NotifyInit
  /\ FairInit(FALSE)

n_unchanged == UNCHANGED <<svars, shvars, qvars, cvars, fvars>>

\* The steps of a lambda that runs, the steps inside a call of notify, and
\* the steps of the worker: a thread that is inside one of them goes on.
NotifyStep ==
  \/ \E t \in Lambdas : NotifyExchange(t) /\ n_unchanged
  \/ \E t \in Callers : NotifyAcquire(t) /\ n_unchanged
  \/ \E t \in Callers : NotifySchedule(t) /\ n_unchanged
  \/ \E t \in Callers : LambdaRun(t) /\ n_unchanged
  \/ \E t \in Callers : LambdaRelease(t) /\ n_unchanged
  \/ NoteInvoke /\ n_unchanged
  \/ set_running /\ n_unchanged
  \/ NoteBody /\ n_unchanged
  \/ NoteReleaseAll /\ n_unchanged
  \/ finished_running /\ n_unchanged
  \/ NoteRelease /\ n_unchanged
  \/ NoteReschedule /\ n_unchanged

NextNotify ==
  \/ \E t \in Notifiers : NotifyExchange(t) /\ n_unchanged
  \/ \E t \in Lambdas : LambdaSchedule(t) /\ n_unchanged
  \/ NotifyStep

\* Workers run the work they are given and a caller inside notify returns;
\* nothing obliges a thread to call notify or to schedule a lambda.
SpecNotify == InitNotify /\ [][NextNotify]_vars /\ WF_vars(NotifyStep)

-----------------------------------------------------------------------------
(* Workers that always have work, and the flag should_steal_for_fairness.  *)
(* A queue is taken as the sequence of its work items: enqueue appends,    *)
(* dequeue takes the head.                                                 *)

\* get_work, schedulerthread.h:139-146: the local work item is taken without
\* a look at the flag while the batch lasts.
FairGetWork(c) ==
  LET l == f_wk[c]
  IN /\ l.pc = "get_work"
     /\ f_wk' = [f_wk EXCEPT ![c] =
                   IF l.next_work # 0 /\ l.batch # 0
                   THEN [l EXCEPT !.pc = "run", !.batch = @ - 1,
                                  !.work = l.next_work, !.next_work = 0]
                   ELSE [l EXCEPT !.pc = "fairness", !.batch = BATCH_SIZE]]
     /\ UNCHANGED <<f_q, f_waiting, should_steal_for_fairness>>

\* get_work, schedulerthread.h:148-152: a raised flag is cleared and try_steal
\* is called; otherwise the worker goes on to its own queue.
FairCheck(c) ==
  LET l == f_wk[c]
  IN /\ l.pc = "fairness"
     /\ IF should_steal_for_fairness[c]
        THEN /\ should_steal_for_fairness' =
                  [should_steal_for_fairness EXCEPT ![c] = FALSE]
             /\ f_wk' = [f_wk EXCEPT ![c].pc = "try_steal",
                                     ![c].after = "dequeue"]
        ELSE /\ f_wk' = [f_wk EXCEPT ![c].pc = "dequeue"]
             /\ UNCHANGED should_steal_for_fairness
     /\ UNCHANGED <<f_q, f_waiting>>

\* try_steal, schedulerthread.h:236-256, and what get_work does with its
\* result (153-157, 170-174): one dequeue from the victim's queue, and the
\* victim moves on.
FairTrySteal(c) ==
  LET l == f_wk[c]
      v == l.victim
      take == v # c /\ f_q[v] # <<>>
  IN /\ l.pc = "try_steal"
     /\ f_q' = IF take THEN [f_q EXCEPT ![v] = Tail(@)] ELSE f_q
     /\ f_wk' = [f_wk EXCEPT ![c] =
                   IF take
                   THEN [l EXCEPT !.pc = "return_next", !.ret = "run",
                                  !.work = Head(f_q[v]),
                                  !.victim = CoreNext(v), !.after = "none"]
                   ELSE [l EXCEPT !.pc = l.after, !.victim = CoreNext(v),
                                  !.after = "none"]]
     /\ UNCHANGED <<f_waiting, should_steal_for_fairness>>

\* get_work, schedulerthread.h:161-170: dequeue from the core's own queue,
\* and try_steal when it is empty.
FairDequeue(c) ==
  LET l == f_wk[c]
      take == f_q[c] # <<>>
  IN /\ l.pc = "dequeue"
     /\ f_q' = IF take THEN [f_q EXCEPT ![c] = Tail(@)] ELSE f_q
     /\ f_wk' = [f_wk EXCEPT ![c] =
                   IF take
                   THEN [l EXCEPT !.pc = "return_next", !.ret = "run",
                                  !.work = Head(f_q[c])]
                   ELSE [l EXCEPT !.pc = "try_steal", !.after = "next_work"]]
     /\ UNCHANGED <<f_waiting, should_steal_for_fairness>>

\* return_next_work, schedulerthread.h:122-131, called by get_work before it
\* returns work from a queue, and by schedule_fifo (90-99) before it keeps
\* the scheduled work as next_work.
FairReturnNextWork(c) ==
  LET l == f_wk[c]
  IN /\ l.pc = "return_next"
     /\ f_q' = IF l.next_work # 0
               THEN [f_q EXCEPT ![c] = Append(@, l.next_work)]
               ELSE f_q
     /\ f_wk' = [f_wk EXCEPT ![c] =
                   IF l.ret = "run"
                   THEN [l EXCEPT !.pc = "run", !.next_work = 0,
                                  !.ret = "none"]
                   ELSE [l EXCEPT !.pc = "get_work", !.next_work = l.work,
                                  !.work = 0, !.ret = "none"]]
     /\ UNCHANGED <<f_waiting, should_steal_for_fairness>>

\* get_work, schedulerthread.h:176-181: the local work item when the queues
\* gave nothing, else steal.
FairNextWork(c) ==
  LET l == f_wk[c]
  IN /\ l.pc = "next_work"
     /\ f_wk' = [f_wk EXCEPT ![c] =
                   IF l.next_work # 0
                   THEN [l EXCEPT !.pc = "run", !.work = l.next_work,
                                  !.next_work = 0]
                   ELSE [l EXCEPT !.pc = "steal"]]
     /\ UNCHANGED <<f_q, f_waiting, should_steal_for_fairness>>

\* steal, schedulerthread.h:263-271: dequeue from the core's own queue.
FairStealOwn(c) ==
  LET l == f_wk[c]
      take == f_q[c] # <<>>
  IN /\ l.pc = "steal"
     /\ f_q' = IF take THEN [f_q EXCEPT ![c] = Tail(@)] ELSE f_q
     /\ f_wk' = [f_wk EXCEPT ![c] =
                   IF take
                   THEN [l EXCEPT !.pc = "run", !.work = Head(f_q[c])]
                   ELSE [l EXCEPT !.pc = "steal_victim"]]
     /\ UNCHANGED <<f_waiting, should_steal_for_fairness>>

\* steal, schedulerthread.h:273-288: dequeue from the victim's queue; the
\* victim moves on when nothing was found, and the loop goes round.
FairStealVictim(c) ==
  LET l == f_wk[c]
      v == l.victim
      take == v # c /\ f_q[v] # <<>>
  IN /\ l.pc = "steal_victim"
     /\ f_q' = IF take THEN [f_q EXCEPT ![v] = Tail(@)] ELSE f_q
     /\ f_wk' = [f_wk EXCEPT ![c] =
                   IF take
                   THEN [l EXCEPT !.pc = "run", !.work = Head(f_q[v])]
                   ELSE [l EXCEPT !.pc = "steal", !.victim = CoreNext(v)]]
     /\ UNCHANGED <<f_waiting, should_steal_for_fairness>>

\* work->run(), schedulerthread.h:211.  A loop schedules itself again, which
\* on a worker is schedule_fifo; the work item from outside ends; the body of
\* a token (core.h:28-34) raises the flag of its core and returns false, so
\* that Closure::invoke (work.h) leaves the token allocated and in no queue.
FairRun(c) ==
  LET l == f_wk[c]
  IN /\ l.pc = "run"
     /\ f_wk' = [f_wk EXCEPT ![c] =
                   IF l.work \in Loops
                   THEN [l EXCEPT !.pc = "return_next", !.ret = "set_next"]
                   ELSE [l EXCEPT !.pc = "get_work", !.work = 0]]
     /\ f_waiting' = IF l.work = Waiting THEN "ran" ELSE f_waiting
     /\ should_steal_for_fairness' =
          [k \in Cores |-> IF l.work = Token(k)
                           THEN TRUE
                           ELSE should_steal_for_fairness[k]]
     /\ UNCHANGED f_q

\* A thread outside schedules the waiting work item on a core
\* (schedule_lifo, schedulerthread.h:100-114; enqueue_front of the queue adds
\* at the back, workstealingqueue.h:48-52, mpmcq.h).
FairArrive(c) ==
  /\ f_waiting # "scheduled"
  /\ f_waiting' = "scheduled"
  /\ f_q' = [f_q EXCEPT ![c] = Append(@, Waiting)]
  /\ UNCHANGED <<f_wk, should_steal_for_fairness>>

InitFair ==
  /\ SchedInit(NoProgram, [c \in Cowns |-> 1])
  /\ SharedInit(0)
  /\ cl = <<>>
  /\ QueueInit
  /\ CoreInit
  /\ NotifyInit
  /\ \E tok \in BOOLEAN : FairInit(tok)

f_unchanged ==
  UNCHANGED <<svars, shvars, qvars, nvars, wk, enqueue_index, dequeue_index,
              sched_log, run_log, pool, ext, item_body>>

\* The steps of the worker of core c.
FairWorker(c) ==
  \/ FairGetWork(c) /\ f_unchanged
  \/ FairCheck(c) /\ f_unchanged
  \/ FairTrySteal(c) /\ f_unchanged
  \/ FairDequeue(c) /\ f_unchanged
  \/ FairReturnNextWork(c) /\ f_unchanged
  \/ FairNextWork(c) /\ f_unchanged
  \/ FairStealOwn(c) /\ f_unchanged
  \/ FairStealVictim(c) /\ f_unchanged
  \/ FairRun(c) /\ f_unchanged

NextFair ==
  \/ \E c \in Cores : FairArrive(c) /\ f_unchanged
  \/ \E c \in Workers : FairWorker(c)

\* Every worker is a thread of its own that goes on running.
SpecFair ==
  InitFair /\ [][NextFair]_vars /\ \A c \in Workers : WF_vars(FairWorker(c))

-----------------------------------------------------------------------------
(* Observations the properties are stated over.                            *)

\* Behaviour b requested cown c / requested it for writing.
Uses(b, c) == \E j \in 1..Len(scen.bodies[b]) : scen.bodies[b][j].c = c
Writes(b, c) ==
  \E j \in 1..Len(scen.bodies[b]) :
     scen.bodies[b][j].c = c /\ ~ scen.bodies[b][j].ro

Running(b) == be[b].pc = "running"
\* The body of b has returned.
Completed(b) == be[b].pc \notin {"new", "queued", "running"}

RunningOn(c) == {b \in Behs : Running(b) /\ Uses(b, c)}
WritersOn(c) == {b \in RunningOn(c) : Writes(b, c)}

\* The body of b has been started by a worker.
Started(b) == be[b].pc \notin {"new", "queued"}
\* finished() of b has returned: every slot is released.
Done(b) == be[b].pc = "done"

\* The schedule_many calls of the program, and the bodies of a call.
Calls == UNION {{<<t, g>> : g \in 1..Len(scen.prog[t])} : t \in Threads}
Members(k) ==
  {scen.prog[k[1]][k[2]][i] : i \in 1..Len(scen.prog[k[1]][k[2]])}
Group(b) == CHOOSE k \in Calls : b \in Members(k)
BodyIndex(b) ==
  LET k == Group(b)
  IN CHOOSE i \in 1..Len(scen.prog[k[1]][k[2]]) : scen.prog[k[1]][k[2]][i] = b

\* Thread t has returned from every call it makes.
Returned(t) == th[t].pc = "idle" /\ th[t].g > Len(scen.prog[t])
\* The call that scheduled b has returned.
CallReturned(b) ==
  LET k == Group(b)
  IN th[k[1]].g > k[2]

\* Positions of b in the chain of c, and the order of the chain.
Positions(c, b) == {i \in 1..Len(chain_order[c]) : chain_order[c][i] = b}
Before(c, b1, b2) ==
  \E i \in Positions(c, b1), j \in Positions(c, b2) : i < j

\* Behaviour b spins in Slot::release or in wakeup_next_writer on a word that
\* does not have the value it waits for.
Spinning(b) ==
  \/ /\ be[b].pc = "wakeup_load"
     /\ next_writer[RCown(b)] = Null
  \/ /\ be[b].pc = "release"
     /\ slots[RSlot(b)].status < STATUS_CHAIN_CLOSED
     /\ last_slot[RCown(b)] # RSlot(b)

\* Every thread has returned, and every behaviour is done, was never pushed
\* to a scheduler queue, or spins: nothing more happens unless a spin ends.
Quiescent ==
  /\ \A t \in Threads : Returned(t)
  /\ \A b \in Behs : be[b].pc \in {"new", "done", "crashed"} \/ Spinning(b)

-----------------------------------------------------------------------------
(* Properties.                                                             *)

\* C1: in every reachable state, a behaviour that runs with a cown it
\* requested for writing is the only behaviour running with that cown:
\* one writer and no reader, or readers only, or nobody.
C1_MutualExclusion ==
  \A c \in Cowns : WritersOn(c) # {} => Cardinality(RunningOn(c)) = 1

\* C2: every scheduled behaviour is executed, and exactly once: no
\* behaviour is pushed to a scheduler queue twice, and when nothing more can
\* happen (all calls have returned, all bodies that ran have terminated)
\* every behaviour has run and finished.
C2_EveryBehaviourRunsOnce ==
  /\ \A b \in Behs : pushed[b] <= 1
  /\ Quiescent => \A b \in Behs : Done(b) /\ pushed[b] = 1

\* The wait-for relation: b waits for a when a is before b in some chain.
WaitsFor(b, a) == \E c \in Cowns : Before(c, a, b)

\* The behaviours of S can be removed one layer at a time, each layer the
\* behaviours that wait for nothing left in S: S holds no cycle.
RECURSIVE Peels(_)
Peels(S) ==
  IF S = {} THEN TRUE
  ELSE LET free == {b \in S : \A a \in S : ~ WaitsFor(b, a)}
       IN free # {} /\ Peels(S \ free)

\* C3: the wait-for graph induced by the chain order of all cowns is
\* acyclic: no behaviour waits, directly or through others, for itself.
C3_WaitForAcyclic == Peels(Behs)

\* Two behaviours that request two cowns in opposite orders are linked on
\* both cowns.
C3_Witness ==
  \E b1, b2 \in Behs : \E c1, c2 \in Cowns :
     /\ c1 # c2
     /\ scen.bodies[b1][1].c # scen.bodies[b2][1].c
     /\ Before(c1, b1, b2) /\ Before(c2, b1, b2)

\* Some body of call k1 is before some body of call k2 in the chain of c.
GBefore(c, k1, k2) ==
  \E b1 \in Members(k1), b2 \in Members(k2) : Before(c, b1, b2)

\* C4: two schedule_many calls are in the same order on every cown they
\* share: never one first on c1 and the other first on c2.
C4_SameGroupOrder ==
  \A k1, k2 \in Calls : \A c1, c2 \in Cowns :
     k1 # k2 => ~ (GBefore(c1, k1, k2) /\ GBefore(c2, k2, k1))

\* Two calls made by different threads, one of them a batch, are linked on
\* two cowns.
C4_Witness ==
  \E k1, k2 \in Calls : \E c1, c2 \in Cowns :
     /\ k1[1] # k2[1] /\ c1 # c2
     /\ Cardinality(Members(k1)) > 1 \/ Cardinality(Members(k2)) > 1
     /\ GBefore(c1, k1, k2) /\ GBefore(c2, k1, k2)

\* C5: of two behaviours on a cown at least one of which writes it, the one
\* that entered the cown's chain first has finished its body before the
\* other starts.
C5_ChainOrderIsExecutionOrder ==
  \A c \in Cowns : \A b1, b2 \in Behs :
     (/\ Before(c, b1, b2)
      /\ Writes(b1, c) \/ Writes(b2, c)
      /\ Started(b2))
        => Completed(b1)

Dup(b) ==
  \E j1, j2 \in 1..Len(scen.bodies[b]) :
     j1 # j2 /\ scen.bodies[b][j1].c = scen.bodies[b][j2].c

\* C7: a behaviour that requests a cown more than once has one entry in the
\* cown's chain, is pushed to a scheduler queue at most once, and when
\* nothing more can happen it has run and released its slots.
C7_DuplicateCown ==
  \A b \in Behs : Dup(b) =>
     /\ \A c \in Cowns : Cardinality(Positions(c, b)) <= 1
     /\ pushed[b] <= 1
     /\ Quiescent => Done(b) /\ pushed[b] = 1

\* C8: once every behaviour has completed, the strong count of a cown is
\* its value before scheduling minus the number of requests that moved a
\* reference to it.
C8_MoveConsumesOne ==
  (\A b \in Behs : Done(b)) =>
     \A c \in Cowns :
        Moves(scen.bodies, c) > 0 =>
           rc[c] = scen.rc0[c] - Moves(scen.bodies, c)

\* C9: a program of one behaviour, once the behaviour has completed, leaves
\* every cown as it was: last_slot and next_writer null, read_ref_count 0,
\* the strong count lower by the number of moved references.
C9_SingleBehaviourRestores ==
  (Len(scen.bodies) = 1 /\ Done(1)) =>
     \A c \in Cowns :
        /\ last_slot[c] = Null
        /\ next_writer[c] = Null
        /\ read_ref_count[c] = 0
        /\ rc[c] = scen.rc0[c] - Moves(scen.bodies, c)

\* A single reader that moved its reference has completed.
C9_Witness ==
  /\ Len(scen.bodies) = 1 /\ Done(1)
  /\ \E j \in 1..Len(scen.bodies[1]) :
        scen.bodies[1][j].ro /\ scen.bodies[1][j].mv

\* The chains of thread t's current call on cown c, and whether the process
\* phase has passed chain k (its acquire_with_transfer has been made).
ChainsOn(t, c) ==
  {k \in 1..Len(th[t].chain_info) : th[t].chain_info[k].cown = c}
Processed(t, k) ==
  \/ th[t].pc \in {"resolve", "resolve_sub"}
  \/ th[t].pc = "process" /\ th[t].i > k
  \/ /\ th[t].pc \in {"try_write", "try_write_add", "try_write_clear",
                      "next_writer"}
     /\ th[t].i >= k
\* Threads inside a call whose chain on c is not processed yet.
Pending(c) ==
  {t \in Threads : th[t].pc # "idle"
                   /\ \E k \in ChainsOn(t, c) : ~ Processed(t, k)}
PChain(t, c) == th[t].chain_info[CHOOSE k \in ChainsOn(t, c) : TRUE]

B2N(p) == IF p THEN 1 ELSE 0

\* References the callers still hold for requests that move one: requests
\* not yet prepared, and the transfer_count of chains not yet processed.
MovesInHand(c) ==
  Cardinality({s \in SlotAddrs : slots[s].mv /\ slots[s].cown = c})
  + Sum([t \in Threads |->
           IF t \in Pending(c) THEN PChain(t, c).transfer_count ELSE 0],
        Threads)

\* The reference of the chain: held while last_slot is not null, except that
\* the call that found the cown idle takes it only in its process phase, and
\* the release that set last_slot to null gives it up a few steps later.
ChainRefs(c) ==
  B2N(last_slot[c] # Null)
  - Cardinality({t \in Pending(c) : PChain(t, c).had_no_predecessor})
  + Cardinality({b \in Behs : be[b].fin /\ RCown(b) = c})

\* The reference of the read front: held while readers are counted, taken by
\* the first reader's call in its process phase or by the writer that wakes
\* the readers, given up by the last reader.
FrontRefs(c) ==
  B2N(read_ref_count[c] >= 2)
  - Cardinality({t \in Pending(c) : PChain(t, c).ref_count = 1})
  - Cardinality({b \in Behs : be[b].pc = "acquire_cown" /\ RCown(b) = c})
  + Cardinality({b \in Behs :
       /\ be[b].j > 0
       /\ be[b].pc \notin {"new", "queued", "running", "done"}
       /\ RCown(b) = c
       /\ \/ be[b].pc \in {"release_read_cown", "clear_pending",
                           "wakeup_load", "wakeup_clear"}
          \/ /\ be[b].pc \in {"resolve", "resolve_sub"}
             /\ be[b].ret = "release_read_cown"})

\* C10: the scheduler holds exactly one strong reference for the chain of a
\* cown whenever last_slot is not null (taken in the process phase of the
\* call that found the cown idle), and the release that resets last_slot to
\* null releases it: the strong count is the callers' references, plus one
\* for the chain, plus one for the read front while readers hold the cown.
C10_ChainReference ==
  \A c \in Cowns :
     rc[c] = 1 + MovesInHand(c) + ChainRefs(c) + FrontRefs(c)

-----------------------------------------------------------------------------
(* Properties of the reference counts.                                     *)

\* No client is inside a call, and no client holds a reference.
AllReleased ==
  \A t \in Clients : cl[t].pc = "idle" /\ cl[t].strong = 0 /\ cl[t].weak = 0

\* C11: under any interleaving of acquire, release, weak_acquire,
\* weak_release and acquire_strong_from_weak on one cown the allocation is
\* freed at most once, and once every reference is given up exactly once; it
\* is freed only when the strong count and then the weak count have reached
\* zero, after the body was collected, and while no client holds a reference.
C11_FreedExactlyOnce ==
  /\ deallocs[TheCown] <= 1
  /\ collects[TheCown] <= 1
  /\ weak_count[TheCown] = 0 => rc[TheCown] = 0 /\ collects[TheCown] = 1
  /\ deallocs[TheCown] = 1 =>
       /\ rc[TheCown] = 0
       /\ weak_count[TheCown] = 0
       /\ \A t \in Clients : cl[t].strong = 0 /\ cl[t].weak = 0
  /\ \A t \in Clients :
       cl[t].strong > 0 \/ cl[t].weak > 0 => weak_count[TheCown] > 0
  /\ \A t \in Clients : cl[t].strong > 0 => rc[TheCown] > 0
  /\ AllReleased => deallocs[TheCown] = 1

\* The allocation was freed in a run in which a promotion was attempted.
C11_Witness ==
  /\ deallocs[TheCown] = 1
  /\ \E t \in Clients : cl[t].res # "none"

\* C12: acquire_strong_from_weak returns true only when the strong count is
\* above zero at the step that promotes, and that step raises the count by
\* exactly one; it returns false only when the count is zero; and once the
\* count is zero no step raises it again.
C12_PromotionRefusesZero ==
  [][/\ rc[TheCown] = 0 => rc'[TheCown] = 0
     /\ \A t \in Clients :
          (cl[t].pc = "promote" /\ cl'[t].pc = "idle") =>
             IF cl'[t].res = "true"
             THEN /\ rc[TheCown] > 0
                  /\ rc'[TheCown] = rc[TheCown] + 1
                  /\ cl'[t].strong = cl[t].strong + 1
             ELSE /\ rc[TheCown] = 0
                  /\ cl'[t].strong = cl[t].strong]_vars

\* A promotion that raced with the last release: it loaded a count above
\* zero, lost its compare-and-swap, and returned false.
C12_Witness ==
  \E t \in Clients : cl[t].res = "false" /\ cl[t].tries > 0

-----------------------------------------------------------------------------
(* Readers ahead of a writer.                                              *)

\* The bodies that entered the chain of c before w did.
Ahead(c, w) ==
  {chain_order[c][i] : i \in {k \in 1..Len(chain_order[c]) :
                                 \A p \in Positions(c, w) : k < p}}

\* Reader b has given up its read access to c: its body has returned and its
\* slot on c has passed the decrement of the read count in drop_read.
ReleasedRead(b, c) ==
  \/ Done(b)
  \/ /\ Completed(b)
     /\ \E k \in 1..Len(scen.bodies[b]) :
          /\ slots[SlotAddr(b, k)].cown = c
          /\ \/ be[b].j > k
             \/ be[b].j = k /\ be[b].pc \notin {"release", "drop_read"}

\* C13: when the chain of cown c starts with n >= 1 readers and a writer
\* follows them, the writer's body starts only after every one of the n
\* readers has completed and released c.
C13_WriterAfterReaders ==
  \A c \in Cowns : \A w \in Behs :
     (/\ Positions(c, w) # {}
      /\ Writes(w, c)
      /\ Ahead(c, w) # {}
      /\ \A r \in Ahead(c, w) : ~ Writes(r, c)
      /\ Started(w))
     => \A r \in Ahead(c, w) : ReleasedRead(r, c)

\* A writer runs behind two readers that entered the chain before it.
C13_Witness ==
  \E c \in Cowns : \E w \in Behs :
     /\ Positions(c, w) # {}
     /\ Writes(w, c)
     /\ Cardinality(Ahead(c, w)) = 2
     /\ \A r \in Ahead(c, w) : ~ Writes(r, c)
     /\ Running(w)

-----------------------------------------------------------------------------
(* Properties of the queue of work items.                                  *)

RECURSIVE ChainFrom(_, _)
\* The work items linked from n on, at most k of them.
ChainFrom(n, k) ==
  IF n = 0 \/ k = 0 THEN <<>>
  ELSE <<n>> \o ChainFrom(next_in_queue[n], k - 1)

QAtRest == \A t \in QThreads : qc[t].pc = "idle"

InQueues(n) == {q \in Queues : n \in SeqSet(content[q])}

\* C14: the queue never loses or duplicates a work item under any
\* interleaving of enqueue, dequeue and dequeue_all.  No item is returned
\* twice; when no call is under way every queue links from its front exactly
\* the items that entered it and did not leave it, in the order of their
\* entry, with back at the last of them, and every item created is either
\* returned once or in one queue; and two items one producer enqueued on a
\* queue one after the other never leave it in the opposite order.
C14_NoLossNoDuplication ==
  /\ \A n \in Items : returned[n] <= 1
  /\ ~ assert_failed
  /\ QAtRest =>
       /\ \A q \in Queues :
            /\ ChainFrom(front[q], MaxItems + 1) = content[q]
            /\ back[q] = IF content[q] = <<>> THEN FrontAddr(q)
                         ELSE content[q][Len(content[q])]
       /\ \A n \in 1..allocated :
            returned[n] + Cardinality(InQueues(n)) = 1
  /\ \A q \in Queues : \A i, j \in DOMAIN deq_log[q] :
       (i < j /\ deq_log[q][i].by = deq_log[q][j].by) =>
          deq_log[q][i].ticket < deq_log[q][j].ticket

\* Every item was created and returned, after a dequeue that gave nullptr
\* while a producer was linking, and after a steal; one queue gave out two
\* items of one producer.
C14_Witness ==
  /\ QAtRest
  /\ allocated = MaxItems
  /\ \A n \in Items : returned[n] = 1
  /\ spurious
  /\ steals > 0
  /\ \E q \in Queues : \E i, j \in DOMAIN deq_log[q] :
       i < j /\ deq_log[q][i].by = deq_log[q][j].by

\* The items that left queue q before the item n did, or that left it while
\* n has not.
LeftBefore(q, n) ==
  {deq_log[q][i].item : i \in
     {i \in DOMAIN deq_log[q] :
        \A j \in DOMAIN deq_log[q] : deq_log[q][j].item = n => i < j}}

\* C16: enqueue_front(w) inserts w at the consumer end of the queue: no
\* item that was in the queue when enqueue_front(w) returned leaves the
\* queue before w does.
C16_EnqueueFrontIsLifo ==
  \A w \in Items : lifo[w].q # 0 =>
     lifo[w].ahead \cap LeftBefore(lifo[w].q, w) = {}

-----------------------------------------------------------------------------
(* Properties of the workers.                                              *)

\* The position of item n among the items worker t scheduled, 0 if none.
SchedPos(t, n) ==
  IF \E i \in DOMAIN sched_log[t] : sched_log[t][i] = n
  THEN CHOOSE i \in DOMAIN sched_log[t] : sched_log[t][i] = n
  ELSE 0

InSchedule(t) == wk[t].after = "set_next" /\ wk[t].pc \in {"rnw", "ei_store", "in_enq"}

\* The items some worker has started to run.
RunItems == UNION {{run_log[t][p].item : p \in DOMAIN run_log[t]} : t \in Workers}

AllWorkDone ==
  /\ \A n \in 1..allocated : n \in RunItems
  /\ \A t \in Workers : wk[t].cur = 0 /\ wk[t].next_work = 0
  /\ ext.pc = "idle"
  /\ \A q \in Queues : back[q] = FrontAddr(q)

\* C17: while an external event source is registered the pool does not
\* finish: no worker is told to stop, even when no work is left and all
\* workers are paused; a worker is stopped only when no source is left and
\* all the work has been done.
C17_ExternalSourceKeepsPool ==
  /\ pool.sources > 0 =>
        \A t \in Workers : wk[t].running /\ wk[t].pc # "stopped"
  /\ (\E t \in Workers : ~ wk[t].running \/ wk[t].pc = "stopped") =>
        pool.sources = 0 /\ AllWorkDone

\* All workers were paused at once while the source was registered, work
\* came from outside after that and was done, and the pool has stopped.
C17_Witness ==
  /\ pool.idled
  /\ allocated >= 2
  /\ pool.sources = 0
  /\ AllWorkDone
  /\ \A t \in Workers : wk[t].pc = "stopped"

\* The body of b has returned with the rerun flag and its Work waits for the
\* next run.
Yielded(b) == be[b].pc = "queued" /\ be[b].runs >= 1

\* b is between the first start of its body and the call of finished.
Holding(b) == Running(b) \/ Yielded(b)

\* b has yielded and has not called finished yet.
AfterYield(b) == Yielded(b) \/ (Running(b) /\ be[b].runs >= 2)

\* C19: release_all runs for a behaviour if and only if its closure has
\* completed and called finished, and every slot is released exactly once:
\* the Work of a behaviour is handed to a worker once for each run, no slot
\* is released while the body has not called finished, and a behaviour that
\* has called finished ran its body without the rerun flag.
C19_ReleaseAllOnce ==
  \A b \in Behs :
     /\ pushed[b] <= 1
     /\ be[b].pc \in {"new", "queued", "running"} => be[b].j = 0
     /\ Holding(b) => be[b].runs <= scen.yields[b] + 1

\* C20: a behaviour whose body has returned with the rerun flag has released
\* no slot and keeps its cowns until it has completed: while it waits for its
\* next run or runs again, no behaviour that conflicts with it on a cown runs
\* or waits for a rerun, and it calls finished only in the run that does not
\* set the flag.
C20_RerunKeepsCowns ==
  \A b \in Behs :
     /\ Yielded(b) => be[b].j = 0 /\ be[b].runs <= scen.yields[b]
     /\ AfterYield(b) =>
           \A c \in Cowns : \A b2 \in Behs \ {b} :
              (/\ Uses(b, c) /\ Uses(b2, c)
               /\ Writes(b, c) \/ Writes(b2, c)) => ~ Holding(b2)
     /\ Completed(b) => be[b].runs = scen.yields[b] + 1

BeforeProcess(b) ==
  LET k == Group(b)
  IN \/ th[k[1]].g < k[2]
     \/ /\ th[k[1]].g = k[2]
        /\ th[k[1]].pc \in {"idle", "acquire", "link", "add_read", "release"}

\* C22: no behaviour is pushed to the scheduler, and none has its
\* exec_count_down at 0, before the schedule_many call that schedules it has
\* finished the release phase for every chain: the extra 1 of the count is
\* given up only in the final resolve loop.
C22_NoRunBeforeRelease ==
  \A b \in Behs :
     BeforeProcess(b) =>
        /\ be[b].pc = "new"
        /\ pushed[b] = 0
        /\ exec_count_down[b] >= 1

\* Every predecessor of b has released and resolved b while the call that
\* schedules b is still in its release phase: only the extra 1 holds b back.
C22_Witness ==
  \E b \in Behs :
     /\ BeforeProcess(b)
     /\ th[Group(b)[1]].pc = "release"
     /\ Len(scen.bodies[b]) = 2
     /\ exec_count_down[b] = 1
     /\ be[b].pc = "new"

\* Behaviour b heads a chain that entered the chain of c directly behind a
\* reader of another call: its call attached, or tried to attach, to a reader
\* slot with a compare-and-swap.
BehindReader(b, c) ==
  \E i \in 2..Len(chain_order[c]) :
     /\ chain_order[c][i] = b
     /\ Group(chain_order[c][i - 1]) # Group(b)
     /\ ~ Writes(chain_order[c][i - 1], c)

\* C23: a behaviour that attaches behind a reader, whichever of the reader's
\* Ready -> ReadAvailable and the successor's Ready -> Next wins, is woken
\* exactly once: it is never pushed to the scheduler twice, and when nothing
\* more can happen it has been pushed.
C23_SuccessorWokenOnce ==
  \A b \in Behs :
     (\E c \in Cowns : BehindReader(b, c)) =>
        /\ pushed[b] <= 1
        /\ Quiescent => pushed[b] = 1

\* This step is a call of add_read on the read_ref_count of cown c: by a
\* scheduling thread in handle_read_only_enqueue, or by a releasing writer
\* for its first reader successor or for the readers after the first.
AddReadCalled(c) ==
  \/ \E t \in Threads :
        /\ th[t].pc = "add_read" /\ th'[t] # th[t]
        /\ Chain(t).cown = c
  \/ \E b \in Behs :
        /\ be[b].pc \in {"wake_readers", "add_count"} /\ be'[b] # be[b]
        /\ RCown(b) = c

\* C24: add_read is never called on a read_ref_count whose writer-pending
\* bit is set.
C24_AddReadNoPending ==
  [][\A c \in Cowns : AddReadCalled(c) => read_ref_count[c] % 2 = 0]_vars

\* This step is the fetch_add(1) of a try_write on the read_ref_count of c:
\* by a scheduling thread in its process phase, or by a releasing writer that
\* found a writer at the end of its readers.
PendingSet(c) ==
  \/ \E t \in Threads :
        /\ th[t].pc = "try_write_add" /\ th'[t] # th[t]
        /\ Chain(t).cown = c
  \/ \E b \in Behs :
        /\ be[b].pc = "w_try_write_add" /\ be'[b] # be[b]
        /\ RCown(b) = c

\* The reader slots of c whose behaviour has not released them.
ReadersLeft(c) ==
  {a \in SlotAddrs : /\ slots[a].cown = c /\ slots[a].ro
                     /\ ~ Done(AddrBeh(a))}

\* C25: the writer-pending bit of a read_ref_count is set by one writer at a
\* time: no try_write sets it while it is set, so the count is 2n or 2n + 1
\* for a number n of readers, never negative and never above the readers
\* there are.
C25_OnePendingWriter ==
  [][\A c \in Cowns :
        /\ PendingSet(c) => read_ref_count[c] % 2 = 0
        /\ read_ref_count[c] >= 0
        /\ read_ref_count[c] \div 2 <= Cardinality(ReadersLeft(c))]_vars

\* A step does not replace a writer stored in next_writer of c by another:
\* the word goes from a writer to null only.
NextWriterKept(c) ==
  next_writer[c] # Null => next_writer'[c] \in {Null, next_writer[c]}

\* No writer has been woken twice, and when nothing more can happen no
\* writer is left waiting: no bit is set, no next_writer is stored, and no
\* reader waits in wakeup_next_writer for a writer to be stored.
WaitingWritersWoken ==
  /\ \A b \in Behs : (\E c \in Cowns : Writes(b, c)) => pushed[b] <= 1
  /\ Quiescent =>
        /\ \A c \in Cowns : next_writer[c] = Null /\ read_ref_count[c] % 2 = 0
        /\ \A b \in Behs : be[b].pc # "wakeup_load"

\* C26: a writer whose try_write returned false is woken exactly once, by
\* the reader whose release_read returns LAST_READER_WAITING_WRITER, through
\* next_writer, and next_writer is not overwritten while it holds a writer.
C26_LastReaderWakesWriter ==
  [][(\A c \in Cowns : NextWriterKept(c)) /\ WaitingWritersWoken']_vars

\* Thread t is in the busy-wait of the acquire phase: the slot it found in
\* last_slot is still in Wait.
AcquireSpin(t) == th[t].pc = "link" /\ is_wait_2pl(slots, th[t].prev)

\* The call the slot belongs to that t waits for, and t waiting for a slot
\* of a call of u.
SpinCall(t) == Group(AddrBeh(th[t].prev))
SpinsOn(t, u) == AcquireSpin(t) /\ SpinCall(t)[1] = u

\* The threads of S can be removed one layer at a time, each layer the
\* threads that wait for no thread left in S.
RECURSIVE SpinPeels(_)
SpinPeels(S) ==
  IF S = {} THEN TRUE
  ELSE LET free == {t \in S : \A u \in S : ~ SpinsOn(t, u)}
       IN free # {} /\ SpinPeels(S \ free)

\* C27: the busy-wait of the acquire phase ends.  The slot a thread waits
\* for belongs to a call of another thread that is under way and has its
\* release phase ahead, and the threads that wait do not wait for one
\* another in a circle: some thread among them can always go on, and the
\* steps of a call are finite.
C27_AcquireSpinEnds ==
  /\ \A t \in Threads :
        AcquireSpin(t) =>
           LET k == SpinCall(t)
           IN /\ k[1] # t
              /\ th[k[1]].g = k[2]
              /\ th[k[1]].pc \in {"acquire", "link", "add_read", "release"}
  /\ SpinPeels({t \in Threads : AcquireSpin(t)})

\* Two threads wait at once, the second for a slot of the first, the first
\* for a slot of a third call.
C27_Witness ==
  \E t, u \in Threads :
     /\ t # u
     /\ SpinsOn(t, u)
     /\ AcquireSpin(u)

\* Behaviour b is in the busy-wait of Slot::release: its slot has no
\* successor response and is not the cown's last_slot.
ReleaseSpin(b) ==
  /\ be[b].pc = "release"
  /\ slots[RSlot(b)].status < STATUS_CHAIN_CLOSED
  /\ last_slot[RCown(b)] # RSlot(b)

\* Thread t has exchanged last_slot, found slot s there, and its next step
\* writes the response into the status of s.
Responds(t, s) ==
  /\ th[t].pc = "link"
  /\ th[t].prev = s
  /\ ~ is_wait_2pl(slots, s)

\* C28: the busy-wait of Slot::release after a failed compare-and-swap of
\* last_slot ends: whenever a slot waits for a successor response, the
\* thread that exchanged last_slot is about to write Next or ChainClosed
\* into the slot's status, and nothing keeps it from that step.
C28_ReleaseSpinEnds ==
  \A b \in Behs :
     ReleaseSpin(b) => \E t \in Threads : Responds(t, RSlot(b))

\* A release waits for the response of a successor that has exchanged
\* last_slot and not yet written the status.
C28_Witness ==
  \E b \in Behs : \E t \in Threads : ReleaseSpin(b) /\ Responds(t, RSlot(b))

\* Behaviour b is the last reader of a cown with a writer waiting:
\* release_read has returned LAST_READER_WAITING_WRITER, and b is in, or on
\* its way to, the busy-wait of wakeup_next_writer with next_writer null.
WaitsForWriter(b) ==
  /\ be[b].pc \in {"clear_pending", "wakeup_load"}
  /\ next_writer[RCown(b)] = Null

\* Some thread in schedule_many, or some behaviour in Slot::release, is at
\* the store of next_writer of cown c, a step nothing keeps it from.
StoresWriter(c) ==
  \/ \E t \in Threads : th[t].pc = "next_writer" /\ Chain(t).cown = c
  \/ \E b \in Behs : be[b].pc = "w_next_writer" /\ RCown(b) = c

\* C29: the busy-wait of wakeup_next_writer ends: whenever release_read has
\* returned LAST_READER_WAITING_WRITER and next_writer is still null, the
\* one that set the pending bit is at its store of next_writer, which does
\* not wait for the reader.
C29_WakeupSpinEnds ==
  \A b \in Behs : WaitsForWriter(b) => StoresWriter(RCown(b))

\* The last reader is in the wait while the writer's thread has set the
\* pending bit and has not yet stored next_writer.
C29_Witness ==
  \E b \in Behs :
     /\ be[b].pc = "wakeup_load"
     /\ WaitsForWriter(b)
     /\ StoresWriter(RCown(b))

\* The documented transitions of a slot's status (behaviourcore.h:66-77),
\* with the link made inside one call while the slot is still in Wait.
DocumentedEdge(old, new) ==
  \/ /\ old = STATUS_WAIT
     /\ new \in {STATUS_READY, STATUS_READAVAILABLE} \/ new > STATUS_CHAIN_CLOSED
  \/ /\ old = STATUS_READY
     /\ new = STATUS_READAVAILABLE \/ new > STATUS_CHAIN_CLOSED
  \/ /\ old = STATUS_READAVAILABLE
     /\ new = STATUS_CHAIN_CLOSED

\* The slots of behaviour b are as constructed: its call has not started.
Constructed(b) ==
  LET k == Group(b)
  IN th[k[1]].g < k[2] \/ (th[k[1]].g = k[2] /\ th[k[1]].pc = "idle")

\* C30: a slot's status is Wait from construction until its call starts,
\* and every change of it follows a documented transition; a status of
\* Next or ChainClosed is not changed again.
C30_StatusTransitions ==
  [][\A a \in DOMAIN slots :
        /\ Constructed(AddrBeh(a)) => slots[a].status = STATUS_WAIT
        /\ slots'[a].status # slots[a].status
              => DocumentedEdge(slots[a].status, slots'[a].status)]_vars

\* Every kind of status has been reached: a slot has gone from
\* ReadAvailable to ChainClosed, another holds a Next pointer, and a third
\* is ReadAvailable.
C30_Witness ==
  /\ \E a \in DOMAIN slots : slots[a].status = STATUS_CHAIN_CLOSED
  /\ \E a \in DOMAIN slots : slots[a].status > STATUS_CHAIN_CLOSED
  /\ \E a \in DOMAIN slots : slots[a].status = STATUS_READAVAILABLE

\* The chain that thread t flips next in its release phase consists only of
\* readers: no body of the call requests the chain's cown for writing.
OnlyReaders(t) ==
  \A b \in Members(<<t, th[t].g>>) : ~ Writes(b, Chain(t).cown)

\* The behaviour in front of the chain's first body in the cown's queue, or
\* Null when the chain is the first the cown ever had.
ChainPred(t) ==
  LET c == Chain(t).cown
      first == AddrBeh(Chain(t).first_slot)
      i == CHOOSE p \in 1..Len(chain_order[c]) : chain_order[c][p] = first
  IN IF i = 1 THEN Null ELSE chain_order[c][i - 1]

\* The readers of the chain can run now: the exchange of last_slot found no
\* predecessor (the status of the slot in front holds no successor
\* response), or the slot in front was ReadAvailable when the chain arrived
\* (its status is ChainClosed).  A chain that has to wait is linked in the
\* status of the slot in front.
CanRunNow(t) ==
  \/ ChainPred(t) = Null
  \/ slots[SlotOn(slots, ChainPred(t), Chain(t).cown)].status
        <= STATUS_CHAIN_CLOSED

\* C31: in the release phase of schedule_many the tail slot of each chain
\* goes from Wait to ReadAvailable exactly when the chain consists only of
\* readers and they can run now, and from Wait to Ready in every other case.
C31_ReleasePhaseFlip ==
  [][\A t \in Threads :
        (th[t].pc = "release" /\ th'[t] # th[t]) =>
           LET tail == Chain(t).last_slot
           IN /\ slots[tail].status = STATUS_WAIT
              /\ slots'[tail].status =
                    IF OnlyReaders(t) /\ CanRunNow(t)
                    THEN STATUS_READAVAILABLE ELSE STATUS_READY]_vars

\* The release phase has made a reader ReadAvailable that arrived behind a
\* ReadAvailable reader of another call and closed that reader's slot.
C31_Witness ==
  \E c \in Cowns : \E i \in 2..Len(chain_order[c]) :
     LET p == chain_order[c][i - 1]
         b == chain_order[c][i]
     IN /\ Group(p) # Group(b)
        /\ slots[SlotOn(slots, p, c)].status = STATUS_CHAIN_CLOSED
        /\ slots[SlotOn(slots, b, c)].status = STATUS_READAVAILABLE

\* resolve(n) on behaviour b stays within what is left of exec_count_down:
\* it does not come after the Work was pushed, n is not more than is left,
\* and the Work is pushed by this step exactly when the load finds n left,
\* or the fetch_sub takes all that is left.
ResolveWithin(b, n, sub) ==
  /\ pushed[b] = 0
  /\ n <= exec_count_down[b]
  /\ pushed'[b] = 1 <=> exec_count_down[b] = n
  /\ sub => exec_count_down'[b] = exec_count_down[b] - n

\* Every step of a resolve, by a thread at the end of schedule_many or by a
\* behaviour that releases a slot in front of another, stays within what is
\* left.
ResolvesWithin ==
  /\ \A t \in Threads :
        (th[t].pc \in {"resolve", "resolve_sub"} /\ th'[t] # th[t]) =>
           ResolveWithin(Bodies(t)[th[t].i], th[t].ec[th[t].i],
                         th[t].pc = "resolve_sub")
  /\ \A x \in Behs :
        (be[x].pc \in {"resolve", "resolve_sub"} /\ be'[x].pc # be[x].pc) =>
           /\ AddrBeh(be[x].w) \in Behs
           /\ ResolveWithin(AddrBeh(be[x].w), 1, be[x].pc = "resolve_sub")

\* C32: the resolve amounts of every behaviour sum to its count + 1:
\* exec_count_down does not underflow, the Work is pushed once, by the
\* resolve that takes all that is left, and when nothing more can happen
\* every behaviour has been pushed.
C32_ResolveSum ==
  [][/\ ResolvesWithin
     /\ \A b \in Behs :
           /\ exec_count_down'[b] >= 0
           /\ pushed'[b] <= 1
           /\ Quiescent' => pushed'[b] = 1]_vars

\* Behaviour b has a reason to wait: on some cown a behaviour in front of it
\* has not released the cown, and one of the two writes the cown.
Conflict(b) ==
  \E c \in Cowns : \E w \in Behs :
     /\ w # b
     /\ Before(c, w, b)
     /\ ~ Done(w)
     /\ Writes(w, c) \/ Writes(b, c)

\* Behaviour b reads some cown.
ReadsSome(b) == \E c \in Cowns : Uses(b, c) /\ ~ Writes(b, c)

\* C33: the readers at the front of a cown's queue run at the same time: a
\* reader whose call has returned and that has not been given to a
\* scheduler waits for a writer in front of it, or for a cown it writes
\* itself, never for another reader to complete.
C33_ReadersRunTogether ==
  \A b \in Behs :
     (ReadsSome(b) /\ CallReturned(b) /\ pushed[b] = 0) => Conflict(b)

\* Two readers of a cown, scheduled by different calls behind a writer that
\* has released the cown, run at the same time.
C33_Witness ==
  \E c \in Cowns : \E r1, r2, w \in Behs :
     /\ r1 # r2 /\ Group(r1) # Group(r2)
     /\ Running(r1) /\ Running(r2)
     /\ Uses(r1, c) /\ Uses(r2, c)
     /\ Writes(w, c) /\ Done(w)
     /\ Before(c, w, r1) /\ Before(c, w, r2)

\* Behaviour b lists cown c both as a reader and as a writer.
ReadsAndWrites(b, c) ==
  /\ Writes(b, c)
  /\ \E j \in 1..Len(scen.bodies[b]) :
        scen.bodies[b][j].c = c /\ scen.bodies[b][j].ro

\* The slots of b that still carry cown c.
Surviving(b, c) ==
  {j \in 1..Len(scen.bodies[b]) : slots[SlotAddr(b, j)].cown = c}

\* C34: of the slots of a body that lists a cown both as a reader and as a
\* writer, the sort puts a writer slot first, so the one slot the prepare
\* phase leaves with the cown is a writer; and while the body runs no other
\* behaviour runs with the cown.
C34_WriterSlotSurvives ==
  \A b \in Behs : \A c \in Cowns :
     (ReadsAndWrites(b, c) /\ ~ Constructed(b)) =>
        /\ \E j \in 1..Len(scen.bodies[b]) :
              Surviving(b, c) = {j} /\ ~ slots[SlotAddr(b, j)].ro
        /\ Running(b) => RunningOn(c) = {b}

\* A body that lists the cown first as a reader, then as a writer, runs
\* after its call has dropped the reader slot, with another behaviour of the
\* cown waiting behind it.
C34_Witness ==
  \E b \in Behs : \E c \in Cowns :
     /\ ReadsAndWrites(b, c)
     /\ scen.bodies[b][1].c = c /\ scen.bodies[b][1].ro
     /\ slots[SlotAddr(b, 1)].cown = Null
     /\ Running(b)
     /\ \E x \in Behs : x # b /\ Before(c, b, x) /\ be[x].pc = "new"

\* The work items thread t holds outside every queue: the node of an
\* enqueue before back.exchange, and in a steal what is left of the segment
\* dequeue_all detached, the item take_one removed to be returned, and the
\* item enqueue_spread is about to enqueue.
InHand(t) ==
  LET l == qc[t]
  IN CASE l.op \in {"enqueue", "enqueue_front"} ->
            IF l.pc = "enq_xchg" THEN {l.ls_start} ELSE {}
       [] l.op = "steal" -> SeqSet(l.held) \cup ({l.r} \ {0})
       [] l.op = "spread" ->
            SeqSet(l.held) \cup ({l.r} \ {0})
              \cup (IF l.pc = "enq_xchg" THEN {l.ls_start} ELSE {})
       [] l.op = "spread_last" ->
            ({l.r} \ {0})
              \cup (IF l.pc = "enq_xchg" THEN SeqSet(l.held) ELSE {})
       [] OTHER -> {}

\* Every work item created is in one place: returned once, in one queue,
\* or in the hands of one thread.
OnePlace ==
  \A n \in 1..allocated :
     returned[n] + Cardinality(InQueues(n))
       + Cardinality({t \in QThreads : n \in InHand(t)}) = 1

\* The step of thread t is the back.exchange of dequeue_all: the victim's
\* queue is empty after it, and the segment {old_front, old_back} holds the
\* items that were in the queue, in their order: what is linked from
\* old_front is the beginning of them, and old_back is the last of them.
DetachesAll(t) ==
  (qc[t].pc = "dqa_back" /\ qc'[t].pc = "steal_take") =>
     LET q == qc[t].q
         l == qc'[t]
         chain == ChainFrom(l.seg_start, MaxItems + 1)
     IN /\ front'[q] = 0 /\ back'[q] = FrontAddr(q) /\ content'[q] = <<>>
        /\ l.held = content[q] /\ l.held # <<>>
        /\ l.seg_end = l.held[Len(l.held)]
        /\ chain # <<>> /\ Len(chain) <= Len(l.held)
        /\ \A i \in DOMAIN chain : chain[i] = l.held[i]

\* An item that leaves the hands of the thief in a step of its steal is
\* returned by the steal or has entered one of the thief's own queues.
StolenGoesToThief(t) ==
  qc[t].op \in {"steal", "spread", "spread_last"} =>
     \A n \in InHand(t) \ InHand(t)' :
        \/ returned'[n] = returned[n] + 1 /\ InQueues(n)' = {}
        \/ /\ returned'[n] = returned[n]
           /\ InQueues(n)' # {} /\ InQueues(n)' \subseteq CoreQueues(Thief)

\* C35: a steal moves work without loss or duplication: dequeue_all
\* detaches all the items of the victim's queue at once, every item is at
\* every moment in one place, and every item detached is returned by the
\* steal or enqueued on a queue of the thief.
C35_StealMovesWork ==
  [][/\ \A t \in QThreads : DetachesAll(t) /\ StolenGoesToThief(t)
     /\ OnePlace']_vars

\* A steal has detached a segment of three items whose links were
\* complete: take_one has removed the first to be returned, the second is
\* on a queue of the thief, and the last is about to be enqueued.
C35_Witness ==
  /\ qc[Thief].op = "spread_last" /\ qc[Thief].pc = "enq_xchg"
  /\ qc[Thief].r # 0
  /\ Len(qc[Thief].held) = 1
  /\ \E m \in 1..allocated :
        /\ by[m] = Thief
        /\ InQueues(m) # {} /\ InQueues(m) \subseteq CoreQueues(Thief)

-----------------------------------------------------------------------------
(* C36: the fairness flag and the token.                                    *)

\* The worker of core c is at the test of the flag in get_work.
AtFlagCheck(c) == f_wk[c].pc = "fairness"
\* The worker of core c has work of its own at hand.
HasLocalWork(c) == f_q[c] # <<>> \/ f_wk[c].next_work # 0

\* A get_work that finds the flag raised clears it and makes one steal
\* attempt, whatever work the core has.
RaisedFlagSteals ==
  [][\A c \in Cores :
       (AtFlagCheck(c) /\ should_steal_for_fairness[c] /\ f_wk'[c] # f_wk[c])
          => /\ ~ should_steal_for_fairness'[c]
             /\ f_wk'[c].pc = "try_steal"]_vars

\* The flag of a core whose worker keeps calling get_work is raised again
\* and again.
FlagRaisedAgain ==
  \A c \in Cores : ([]<>AtFlagCheck(c)) => ([]<>should_steal_for_fairness[c])

\* Work scheduled from outside on a core's queue is run.
WaitingWorkRuns == (f_waiting = "scheduled") ~> (f_waiting = "ran")

\* C36: a get_work that finds the flag of its core raised clears it and makes
\* one steal attempt even if the core has work of its own; the token is
\* enqueued again each time it runs, so the flag of a core whose worker keeps
\* calling get_work is raised again and again; and work waiting on a core's
\* queue is eventually run, even when every worker always has local work.
C36_FairnessByToken ==
  /\ RaisedFlagSteals
  /\ FlagRaisedAgain
  /\ WaitingWorkRuns

-----------------------------------------------------------------------------
(* C37: a notification is scheduled at most once at a time.                 *)

\* Times the behaviour of the notification is in the chain of its cown.
NoteInChain == Cardinality({i \in 1..Len(n_chain) : n_chain[i] = TheNote})
\* Callers of notify that are about to schedule the behaviour.
Scheduling == {t \in Callers : n_call[t].pc \in {"acquire", "schedule"}}
\* Executions of the behaviour that are under way or are to come: it is in
\* the chain of its cown, or somebody is about to schedule it.
NoteScheduled ==
  NoteInChain + Cardinality(Scheduling)
    + (IF n_run = "reschedule" THEN 1 ELSE 0)
\* Calls of notify made so far.
RECURSIVE NotifyCallsOf(_)
NotifyCallsOf(T) ==
  IF T = {} THEN 0
  ELSE LET t == CHOOSE x \in T : TRUE
       IN n_call[t].calls + NotifyCallsOf(T \ {t})
NotifyCalls == NotifyCallsOf(Callers)
\* A worker runs the behaviour: from invoke to the end of finished_running.
NoteRunning == n_run # "idle"

-----------------------------------------------------------------------------
(* C38: the scheduler keeps a requested cown alive.                         *)

\* Behaviour b has been scheduled and its body has not completed: it is
\* linked in the chains of its cowns, waiting or executing.
Outstanding(b) == CallReturned(b) /\ be[b].pc \in {"new", "queued", "running"}

\* The strong references to c that the scheduler holds: the count less the
\* reference every caller keeps and the references callers still have in
\* hand for requests that move one.
SchedulerRefs(c) == rc[c] - 1 - MovesInHand(c)

\* A caller is inside a call of schedule_many that requests c: it holds a
\* reference to c, its own or the one that the call is about to take over.
InCall(c) ==
  \E t \in Threads :
     /\ th[t].pc # "idle"
     /\ \E i \in 1..Len(Bodies(t)) : Uses(Bodies(t)[i], c)

\* C38: while a behaviour that requested a cown is linked in its chain,
\* waiting or executing, from the return of its schedule_many, the strong
\* count of the cown stays above zero whatever the callers that are outside
\* schedule_many do with their references: the scheduler holds a reference
\* of its own, or a caller inside a call that requests the cown does; also
\* when the request moved the caller's reference and when the behaviour is
\* a reader.
C38_CownKeptAlive ==
  \A b \in Behs : \A c \in Cowns :
     (Uses(b, c) /\ Outstanding(b)) => SchedulerRefs(c) >= 1 \/ InCall(c)

-----------------------------------------------------------------------------
(* C39: the credit of the leading readers in the process phase.             *)

\* Thread t's step ends the process phase of its current chain.
EndsChain(t) ==
  /\ th[t].pc \in {"process", "try_write", "try_write_add", "try_write_clear",
                   "next_writer"}
  /\ \/ th'[t].pc = "resolve"
     \/ th'[t].pc = "process" /\ th'[t].i = th[t].i + 1

\* The behaviours of the current chain of t, in the order of the chain, and
\* the positions in the call's bodies array of its first n behaviours.
ChainBehs(t) ==
  LET ci == Chain(t)
  IN Segment(slots, ci.first_slot, ci.last_slot, ci.cown, Len(Bodies(t)))
Leading(t, n) ==
  {k \in 1..Len(Bodies(t)) :
     \E m \in 1..Min(n, Len(ChainBehs(t))) : Bodies(t)[k] = ChainBehs(t)[m]}

\* C39: when the process phase of schedule_many ends for a chain that starts
\* with readers that can run at once, the execution count of each of the
\* chain's leading consecutive readers has gone up by one and that of every
\* other body of the call is unchanged, wherever the readers stand in the
\* bodies array; for a chain whose readers cannot run at once no count
\* changes.
C39_LeadingReadersCredited ==
  [][\A t \in Threads :
       (EndsChain(t) /\ slots[Chain(t).first_slot].ro) =>
          LET ci == Chain(t)
              lead == IF ci.read_only_can_run
                      THEN Leading(t, ci.first_consecutive_readers_count)
                      ELSE {}
          IN th'[t].ec = [k \in DOMAIN th[t].ec |->
                            IF k \in lead THEN th[t].ec[k] + 1
                            ELSE th[t].ec[k]]]_vars

====
